---- MODULE Spec2Model ----
(***************************************************************************)
(* Model of the watch / materialize / run pipeline of ai_QC_auto:          *)
(*   src/src/search.py         stability watcher                            *)
(*   src/src/copier.py         candidate materializer (copy_candidates)     *)
(*   src/src/mcquac_runner.py  job runner (_runner_loop)                    *)
(*   src/main.py               coordinator                                  *)
(* File names are sequences of tokens: a token is one character or one     *)
(* file suffix (".raw", ".d"), so that concatenation of token sequences is *)
(* concatenation of the strings they stand for.                            *)
(***************************************************************************)
EXTENDS Integers, Sequences, FiniteSets, TLC

\* ------------------------------------------------------------ bounds
\* number of copy_candidates invocations in one behaviour
MaxCalls == 2
\* candidates in one snapshot handed to copy_candidates
MaxSnap == 2
MaxPar == 2
MaxScans == 4
MaxTmpl == 2
MaxBatch == 2
MaxLines == 3

\* ------------------------------------------------------------ names
Roots == {"/in1/", "/in2/"}
Suffixes == {".raw", ".d"}
DigitTok == <<"0", "1", "2", "3", "4", "5", "6", "7", "8", "9">>

\* decimal digits of a natural number, as str(size) gives them
RECURSIVE Str(_)
Str(n) == IF n < 10 THEN <<DigitTok[n + 1]>>
          ELSE Str(n \div 10) \o <<DigitTok[(n % 10) + 1]>>

\* the bytes fed to the digest: the name followed by the decimal size.
\* SHA-1 is taken to be injective on them, so the digest input stands for
\* the digest and for the job directory tmp/<hash>.
make_hash(name, size) == name \o Str(size)

\* Path(name).name : the path without its directory
Base(name) == Tail(name)

\* a stem that keeps the suffix
Stem_keeps_suffix(base) == base

\* Path(name).stem : the base name without its last suffix
Stem(base) == IF Len(base) > 1 /\ base[Len(base)] \in Suffixes
              THEN SubSeq(base, 1, Len(base) - 1)
              ELSE base

RootOf(name) == Head(name)

\* the names and sizes a behaviour may involve
AllNames == { <<"/in1/", "a">>, <<"/in1/", "a", "1">>,
              <<"/in1/", "x", ".raw">>, <<"/in1/", "x", ".d">>,
              <<"/in2/", "a">>, <<"/in1/", "B">>,
              <<"/in1/", "a", "[", "1", "]">> }
AllSizes == {2, 12}
Keys == AllNames \X AllSizes
AllHashes == { make_hash(k[1], k[2]) : k \in Keys }
Runners == {1, 2}

\* the order of the tokens, standing for the order of the characters
Alphabet == <<".d", ".raw", "/in1/", "/in2/", "0", "1", "2", "3", "4", "5",
              "6", "7", "8", "9", "B", "[", "]", "a", "b", "x">>
TokRank(t) == CHOOSE i \in DOMAIN Alphabet : Alphabet[i] = t

Max(a, b) == IF a >= b THEN a ELSE b

NoInfo == [name |-> <<>>, root |-> "none"]

\* no mcquac.json in a job directory
NoParams == [template |-> 0, dir |-> <<>>]

\* an empty job directory tmp/<hash> with its input/ and output/
NewDir == [ready |-> FALSE, working |-> FALSE, finish |-> FALSE,
           rmtime |-> 0, wlines |-> {}, flines |-> {},
           mcquac |-> NoParams, info |-> NoInfo,
           input |-> {}, output |-> {}, nflog |-> FALSE]

VARIABLES
  cfg,            \* configuration of the run, fixed at start
  src,            \* the watched directories: name -> size in bytes
  template,       \* config/mcquac.json: the version of its text
  jobdir,         \* tmp/<hash> (and <cwd>/tmp/<hash> of a foreign working
                  \* directory): job directory -> its files
  copied_cache,   \* main(): the dedupe set of (name, size)
  mat,            \* the running copy_candidates invocation
  calls,          \* copy_candidates invocations so far
  coord,          \* main(): the event loop and the events it has taken
  ignoreThread,   \* tmp/ignore-<slug>.txt of each watch pair
  ignoreOut,      \* <final_out>/ignore.txt of each watch pair
  finalOut,       \* files in each pair's final output root
  copyCount,      \* history: successful copies per (name, size)
  jobCount,       \* history: job creations per (name, size)
  run,            \* each runner loop: position, locals, running dict
  stop,           \* each runner loop's stop_evt
  status,         \* status events put on the runners' status queues
  hist,           \* history: claims, launches, finishes per job directory
  watch           \* the watcher of /in1/: history, queue, scans made

envVars == <<cfg, src, template>>
fsVars == <<jobdir, ignoreThread, ignoreOut, finalOut>>
matVars == <<copied_cache, mat, calls, coord, copyCount, jobCount>>
runVars == <<run, stop, status, hist>>
vars == <<envVars, fsVars, matVars, runVars, watch>>

MatIdle == [pc |-> "idle", w |-> "none", snap |-> <<>>,
            jobs_written |-> {}, names_for_ignore |-> <<>>,
            copied_paths |-> <<>>]

\* a snapshot entry as _finalize_snapshot builds it
Candidate(name, size) ==
  [name |-> name, size |-> size, hash |-> make_hash(name, size)]

\* snapshots a watcher of root w can emit: one entry per name, non-empty
Snapshots(w) ==
  LET C == { Candidate(k[1], k[2]) : k \in { c \in cfg.cands : RootOf(c[1]) = w } }
  IN  { <<c>> : c \in C } \cup
      (IF MaxSnap >= 2
       THEN { <<p[1], p[2]>> : p \in { q \in C \X C : q[1].name # q[2].name } }
       ELSE {})

Faults(on) == IF on THEN BOOLEAN ELSE {TRUE}

\* ------------------------------------------------------ materializer

\* _ensure_hash_dirs: tmp/<hash>/{input,output}, idempotent
ensure_hash_dirs(jd, h) ==
  IF h \in DOMAIN jd THEN jd ELSE jd @@ (h :> NewDir)

\* the directory of main.py, which holds tmp/ (TMP_DIR = ROOT / "tmp")
ProjectRoot == "root"

\* write_from_config, out_dir = Path.cwd() / "tmp" / inner_folder: the
\* directory tmp/<hash> when the process runs in the project root, a
\* directory of the same name under the working directory otherwise
out_dir(cwd, h) == IF cwd = ProjectRoot THEN h ELSE <<cwd>> \o h

\* write_from_config: out_dir.mkdir(parents=True, exist_ok=True)
ensure_out_dir(jd, od) ==
  IF od \in DOMAIN jd THEN jd ELSE jd @@ (od :> NewDir)

\* write_from_config: the text of config/mcquac.json as it is now, with the
\* placeholders replaced by the input and output directory of tmp/<hash>
write_from_config(tmpl, h) == [template |-> tmpl, dir |-> h]

\* _write_info_json: an existing info.json is left alone
write_info_json(d, name) ==
  IF d.info # NoInfo THEN d
  ELSE [d EXCEPT !.info = [name |-> Base(name), root |-> RootOf(name)]]

\* _write_ready_file: an existing .ready is left alone
write_ready_file(d, now) ==
  IF d.ready THEN d ELSE [d EXCEPT !.ready = TRUE, !.rmtime = now]

\* a materializer that copies without recording the pair
cache_add_forgets(cache, key) == cache

\* copied_cache.add(key)
cache_add(cache, key) == cache \cup {key}

\* main(): one snapshot taken from a watcher queue is handed over
MatBegin(w, snap) ==
  /\ mat.pc = "idle"
  /\ calls < MaxCalls
  /\ mat' = [pc |-> "loop", w |-> w, snap |-> snap,
             jobs_written |-> {}, names_for_ignore |-> <<>>,
             copied_paths |-> <<>>]
  /\ calls' = calls + 1
  /\ UNCHANGED <<envVars, watch, fsVars, copied_cache, coord, copyCount, jobCount, runVars>>

\* a materializer that does not look whether the source is still there
source_exists_unchecked(name) == TRUE

\* src = _resolve_source_path(name, folder); src.exists()
source_exists(name) == name \in DOMAIN src

\* a loop that gives up the rest of the snapshot
next_item_aborts(m) == [m EXCEPT !.snap = <<>>]

\* `for item in snapshot`: `continue`, or the end of the loop body, goes on
\* with the entry after this one
next_item(m) == [m EXCEPT !.snap = Tail(m.snap)]

\* copy_candidates: the loop body for the next snapshot entry
MatStep(copyOk, tmplOk) ==
  /\ mat.pc = "loop"
  /\ mat.snap # <<>>
  /\ LET item == Head(mat.snap)
         key == <<item.name, item.size>>
         h == item.hash
         rest == next_item(mat)
         jd1 == ensure_hash_dirs(jobdir, h)
         copied == [jd1[h] EXCEPT !.input = @ \cup {Base(item.name)}]
         od == out_dir(cfg.cwd, h)
         jd2 == ensure_out_dir([jd1 EXCEPT ![h] = copied], od)
         jd3 == [jd2 EXCEPT ![od].mcquac = write_from_config(template, h)]
         job == write_ready_file(write_info_json(jd3[h], item.name), calls)
     IN  IF key \in copied_cache \/ ~source_exists(item.name)
         THEN /\ mat' = rest
              /\ UNCHANGED <<jobdir, copied_cache, copyCount, jobCount>>
         ELSE IF ~copyOk
         THEN /\ mat' = rest
              /\ jobdir' = jd1
              /\ UNCHANGED <<copied_cache, copyCount, jobCount>>
         ELSE /\ copied_cache' = cache_add(copied_cache, key)
              /\ copyCount' = [copyCount EXCEPT ![key] = @ + 1]
              /\ mat' = [rest EXCEPT
                   !.names_for_ignore = Append(@, Base(item.name)),
                   !.copied_paths = Append(@, <<h, Base(item.name)>>),
                   !.jobs_written = @ \cup {h}]
              /\ IF h \notin mat.jobs_written /\ tmplOk
                 THEN /\ jobdir' = [jd3 EXCEPT ![h] = job]
                      /\ jobCount' = [jobCount EXCEPT ![key] = @ + 1]
                 ELSE /\ jobdir' = [jd1 EXCEPT ![h] = copied]
                      /\ UNCHANGED jobCount
  /\ UNCHANGED <<envVars, watch, ignoreThread, ignoreOut, finalOut, calls, coord, runVars>>

RECURSIVE ToAdd(_, _)
\* _append_to_ignore_filenames: the names not yet a line of the file
ToAdd(names, existing) ==
  IF names = <<>> THEN <<>>
  ELSE IF Head(names) \in existing THEN ToAdd(Tail(names), existing)
  ELSE <<Head(names)>> \o ToAdd(Tail(names), existing)

Range(s) == { s[i] : i \in DOMAIN s }

append_to_ignore_filenames(file, names) == file \o ToAdd(names, Range(file))

\* copy_candidates: after the loop, the queued base names are appended
MatEnd ==
  /\ mat.pc = "loop"
  /\ mat.snap = <<>>
  /\ ignoreThread' =
       IF mat.names_for_ignore # <<>>
       THEN [ignoreThread EXCEPT ![mat.w] =
               append_to_ignore_filenames(@, mat.names_for_ignore)]
       ELSE ignoreThread
  /\ mat' = MatIdle
  /\ UNCHANGED <<envVars, watch, jobdir, ignoreOut, finalOut,
                 copied_cache, calls, coord, copyCount, jobCount, runVars>>

\* ------------------------------------------------------------ runner

\* an append that creates the marker and writes nothing
append_line_drops(d, line) == [d EXCEPT !.working = TRUE]

\* _append_line: open(..., "a") creates the marker when it is missing
append_line(d, line) ==
  [d EXCEPT !.working = TRUE,
            !.wlines = (IF d.working THEN @ ELSE {}) \cup {line}]

\* a finalisation that leaves the markers as they are
rename_to_finish_skipped(d) == d

\* _rename_atomic(.working, .finish): an existing .finish is unlinked, then
\* .working is moved; a missing .working raises after the unlink
rename_to_finish(d) ==
  IF d.working
  THEN [d EXCEPT !.working = FALSE, !.wlines = {},
                 !.finish = TRUE, !.flines = d.wlines]
  ELSE [d EXCEPT !.finish = FALSE, !.flines = {}]

\* _rename_atomic(.ready, .working), first half: dst.exists() -> dst.unlink()
unlink_working(d) == [d EXCEPT !.working = FALSE, !.wlines = {}]

\* _rename_atomic(.ready, .working), second half, and the "started:" line
replace_ready(d) ==
  [d EXCEPT !.ready = FALSE, !.working = TRUE, !.wlines = {"started"}]

\* _find_mcquac_json: tmp/<hash>/mcquac.json, or the same path out of info.json
find_mcquac_json(d) == d.mcquac # NoParams

RECURSIVE LexLess(_, _)
LexLess(a, b) ==
  IF a = <<>> THEN b # <<>>
  ELSE IF b = <<>> THEN FALSE
  ELSE IF Head(a) # Head(b) THEN TokRank(Head(a)) < TokRank(Head(b))
  ELSE LexLess(Tail(a), Tail(b))

\* the sort key of the ready list: (st_mtime of .ready, directory name)
ReadyBefore(d1, d2) ==
  \/ jobdir[d1].rmtime < jobdir[d2].rmtime
  \/ jobdir[d1].rmtime = jobdir[d2].rmtime /\ LexLess(d1, d2)

\* a ready list with the newest marker first
RECURSIVE SortReady_newest_first(_)
SortReady_newest_first(S) ==
  IF S = {} THEN <<>>
  ELSE LET m == CHOOSE d \in S : \A e \in S \ {d} : ReadyBefore(e, d)
       IN  <<m>> \o SortReady_newest_first(S \ {m})

RECURSIVE SortReady(_)
SortReady(S) ==
  IF S = {} THEN <<>>
  ELSE LET m == CHOOSE d \in S : \A e \in S \ {d} : ReadyBefore(d, e)
       IN  <<m>> \o SortReady(S \ {m})

\* a capacity that forgets the processes already running
Capacity_ignores_running(max_parallel, running) == max_parallel

\* capacity = max(0, int(max_parallel) - len(running))
Capacity(max_parallel, running) == Max(0, max_parallel - Cardinality(running))

\* start_runner_thread: max(1, int(max_parallel))
MaxParallel == Max(1, cfg.max_parallel)

Emit(kind, d) == status \cup {<<kind, d>>}


\* the sort key of _postprocess_success: (st_mtime, st_size)
ArtLeq(a, b) == a.mtime < b.mtime \/ (a.mtime = b.mtime /\ a.size <= b.size)

\* a selection that takes any artifact
Best_any(S) == S

\* max(hdf5_files, key=_hdf5_key): any file with the largest key
Best(S) == { a \in S : \A b \in S : ArtLeq(b, a) }

NoArt == [id |-> "none", mtime |-> 0, size |-> 0]

\* _append_to_ignore_file: one name, skipped when it is already a line
append_to_ignore_file(file, line) ==
  IF line = <<>> \/ line \in Range(file) THEN file ELSE Append(file, line)

\* a post-processing whose ignore-file failure returns before the clearing
postprocess_success_aborts(d, best, fault) ==
  LET hd == jobdir[d]
      w == hd.info.root
      same == [dir |-> hd, final |-> finalOut, ign |-> ignoreOut]
  IN  IF hd.info = NoInfo THEN same @@ [msgs |-> {"warn_info"}]
      ELSE IF hd.output = {} THEN same @@ [msgs |-> {"warn_nohdf5"}]
      ELSE IF fault = "copy" THEN same @@ [msgs |-> {"warn_copy"}]
      ELSE [dir |-> IF fault \in {"clear", "ignore"} THEN hd
                    ELSE [hd EXCEPT !.input = {}, !.output = {}],
            final |-> [finalOut EXCEPT ![w] =
                         ((Stem(hd.info.name) \o <<".hdf5">>) :> best) @@ @],
            ign |-> IF fault = "ignore" THEN ignoreOut
                    ELSE [ignoreOut EXCEPT ![w] =
                            append_to_ignore_file(@, hd.info.name)],
            msgs |-> IF fault = "ignore" THEN {"warn_ignore"}
                     ELSE {"out"} \cup
                          (IF fault = "clear" THEN {"warn_clear"} ELSE {})]

\* a post-processing that empties the staging directories although the
\* copy of the artifact failed
postprocess_success_clears_anyway(d, best, fault) ==
  LET hd == jobdir[d]
      w == hd.info.root
      same == [dir |-> hd, final |-> finalOut, ign |-> ignoreOut]
  IN  IF hd.info = NoInfo THEN same @@ [msgs |-> {"warn_info"}]
      ELSE IF hd.output = {} THEN same @@ [msgs |-> {"warn_nohdf5"}]
      ELSE IF fault = "copy"
      THEN [dir |-> [hd EXCEPT !.input = {}, !.output = {}],
            final |-> finalOut, ign |-> ignoreOut, msgs |-> {"warn_copy"}]
      ELSE [dir |-> IF fault = "clear" THEN hd
                    ELSE [hd EXCEPT !.input = {}, !.output = {}],
            final |-> [finalOut EXCEPT ![w] =
                         ((Stem(hd.info.name) \o <<".hdf5">>) :> best) @@ @],
            ign |-> IF fault = "ignore" THEN ignoreOut
                    ELSE [ignoreOut EXCEPT ![w] =
                            append_to_ignore_file(@, hd.info.name)],
            msgs |-> {"out"} \cup
                     (IF fault = "ignore" THEN {"warn_ignore"} ELSE {}) \cup
                     (IF fault = "clear" THEN {"warn_clear"} ELSE {})]

\* _postprocess_success: the job directory, the final roots, the ignore
\* files and the status messages it leaves
postprocess_success(d, best, fault) ==
  LET hd == jobdir[d]
      w == hd.info.root
      same == [dir |-> hd, final |-> finalOut, ign |-> ignoreOut]
  IN  IF hd.info = NoInfo THEN same @@ [msgs |-> {"warn_info"}]
      ELSE IF hd.output = {} THEN same @@ [msgs |-> {"warn_nohdf5"}]
      ELSE IF fault = "copy" THEN same @@ [msgs |-> {"warn_copy"}]
      ELSE [dir |-> IF fault = "clear" THEN hd
                    ELSE [hd EXCEPT !.input = {}, !.output = {}],
            final |-> [finalOut EXCEPT ![w] =
                         ((Stem(hd.info.name) \o <<".hdf5">>) :> best) @@ @],
            ign |-> IF fault = "ignore" THEN ignoreOut
                    ELSE [ignoreOut EXCEPT ![w] =
                            append_to_ignore_file(@, hd.info.name)],
            msgs |-> {"out"} \cup
                     (IF fault = "ignore" THEN {"warn_ignore"} ELSE {}) \cup
                     (IF fault = "clear" THEN {"warn_clear"} ELSE {})]

\* a failure post-processing that does not look for a result artifact
postprocess_failure_logs_anyway(d, fault) ==
  LET hd == jobdir[d]
      w == hd.info.root
      same == [dir |-> hd, final |-> finalOut, ign |-> ignoreOut]
  IN  IF hd.info = NoInfo THEN same @@ [msgs |-> {"warn_info"}]
      ELSE IF ~hd.nflog THEN same @@ [msgs |-> {"warn_nolog"}]
      ELSE IF fault = "copy" THEN same @@ [msgs |-> {"warn_copy"}]
      ELSE [dir |-> hd,
            final |-> [finalOut EXCEPT ![w] =
                         ((Stem(hd.info.name) \o <<".error.log">>) :> "log") @@ @],
            ign |-> ignoreOut,
            msgs |-> {"out_errlog"}]

\* _postprocess_failure: an unreadable info.json, a result artifact under
\* output/ or a missing .nextflow.log end it with a warning; otherwise the
\* log is copied to <final_output_root>/<stem>.error.log
postprocess_failure(d, fault) ==
  LET hd == jobdir[d]
      w == hd.info.root
      same == [dir |-> hd, final |-> finalOut, ign |-> ignoreOut]
  IN  IF hd.info = NoInfo THEN same @@ [msgs |-> {"warn_info"}]
      ELSE IF hd.output # {} THEN same @@ [msgs |-> {"warn_rc_hdf5"}]
      ELSE IF ~hd.nflog THEN same @@ [msgs |-> {"warn_nolog"}]
      ELSE IF fault = "copy" THEN same @@ [msgs |-> {"warn_copy"}]
      ELSE [dir |-> hd,
            final |-> [finalOut EXCEPT ![w] =
                         ((Stem(hd.info.name) \o <<".error.log">>) :> "log") @@ @],
            ign |-> ignoreOut,
            msgs |-> {"out_errlog"}]

\* the reap loop body for one tracked job, up to the two appended lines
RReapPoll(r, d, best, fault) ==
  /\ run[r].pc = "reap"
  /\ d \in run[r].todo
  /\ IF run[r].jobs[d] = "run"
     THEN /\ run' = [run EXCEPT ![r].todo = @ \ {d}]
          /\ UNCHANGED <<fsVars, status>>
     ELSE LET post == IF run[r].jobs[d] = "rc0"
                      THEN postprocess_success(d, best, fault)
                      ELSE postprocess_failure(d, fault)
          IN  /\ jobdir' = [jobdir EXCEPT ![d] =
                   append_line(append_line(post.dir, "finished"), "returncode")]
              /\ finalOut' = post.final
              /\ ignoreOut' = post.ign
              /\ status' = status \cup { <<m, d>> : m \in post.msgs }
              /\ run' = [run EXCEPT ![r].pc = "fin", ![r].cur = d,
                                    ![r].fault = fault]
              /\ UNCHANGED ignoreThread
  /\ UNCHANGED <<envVars, watch, matVars, stop, hist>>

\* a closing step that keeps a job in the map when its rename failed
RFinalize_keeps_failed(r) ==
  /\ run[r].pc = "fin"
  /\ LET d == run[r].cur
         ok == jobdir[d].working
     IN  /\ jobdir' = [jobdir EXCEPT ![d] = rename_to_finish(@)]
         /\ status' = Emit(IF ok THEN "ok" ELSE "warn_finish", d)
         /\ hist' = IF ok THEN [hist EXCEPT ![d].finishes = @ + 1] ELSE hist
         /\ run' = [run EXCEPT ![r].pc = "reap",
                               ![r].todo = @ \ {d},
                               ![r].jobs = IF ok THEN [e \in DOMAIN @ \ {d} |-> @[e]]
                                           ELSE @]
  /\ UNCHANGED <<envVars, watch, matVars, ignoreThread, ignoreOut, finalOut, stop>>

\* _rename_atomic(job.working_file, hdir / ".finish"), the status message,
\* and running.pop(hdir) in the finally clause
RFinalize(r) ==
  /\ run[r].pc = "fin"
  /\ LET d == run[r].cur
         ok == jobdir[d].working
     IN  /\ jobdir' = [jobdir EXCEPT ![d] = rename_to_finish(@)]
         /\ status' = Emit(IF ok THEN "ok" ELSE "warn_finish", d)
         /\ hist' = IF ok THEN [hist EXCEPT ![d].finishes = @ + 1] ELSE hist
         /\ run' = [run EXCEPT ![r].pc = "reap",
                               ![r].todo = @ \ {d},
                               ![r].jobs = [e \in DOMAIN @ \ {d} |-> @[e]]]
  /\ UNCHANGED <<envVars, watch, matVars, ignoreThread, ignoreOut, finalOut, stop>>

\* _discover_ready_dirs: the directories that hold a .ready
discover_ready_dirs == { d \in DOMAIN jobdir : jobdir[d].ready }

\* after the reap loop: capacity = max(0, max_parallel - len(running)) and,
\* with capacity left, ready_list = list(_discover_ready_dirs(tmp_dir))
RList(r) ==
  /\ run[r].pc = "reap"
  /\ run[r].todo = {}
  /\ LET c == Capacity(MaxParallel, DOMAIN run[r].jobs)
     IN  run' = [run EXCEPT ![r].capacity = c,
                            ![r].todo = IF c > 0 THEN discover_ready_dirs ELSE {},
                            ![r].pc = IF c > 0 THEN "sort" ELSE "sleep"]
  /\ UNCHANGED <<envVars, watch, fsVars, matVars, stop, status, hist>>

\* ready_list.sort(key=... .stat().st_mtime ...): stat of a vanished .ready
\* raises outside every try, which ends the runner thread
RSort(r) ==
  /\ run[r].pc = "sort"
  /\ IF \A d \in run[r].todo : jobdir[d].ready
     THEN run' = [run EXCEPT ![r].ready_list = SortReady(run[r].todo),
                             ![r].todo = {}, ![r].pc = "admit"]
     ELSE run' = [run EXCEPT ![r].todo = {}, ![r].pc = "crashed"]
  /\ UNCHANGED <<envVars, watch, fsVars, matVars, stop, status, hist>>

\* for hdir, ready in ready_list: the capacity test, the running test and
\* the first half of _rename_atomic(ready, working); skipped holds the
\* entries of this cycle's list passed over by "if hdir in running: continue"
RAdmit(r) ==
  /\ run[r].pc = "admit"
  /\ IF run[r].ready_list = <<>> \/ run[r].capacity <= 0
     THEN /\ run' = [run EXCEPT ![r].pc = "sleep", ![r].ready_list = <<>>,
                                  ![r].skipped = {}]
          /\ UNCHANGED jobdir
     ELSE LET d == Head(run[r].ready_list)
          IN  IF d \in DOMAIN run[r].jobs
              THEN /\ run' = [run EXCEPT ![r].ready_list = Tail(@),
                                         ![r].skipped = @ \cup {d}]
                   /\ UNCHANGED jobdir
              ELSE /\ run' = [run EXCEPT ![r].ready_list = Tail(@),
                                         ![r].cur = d, ![r].pc = "claim"]
                   /\ jobdir' = [jobdir EXCEPT ![d] =
                        IF @.working THEN unlink_working(@) ELSE @]
  /\ UNCHANGED <<envVars, watch, matVars, ignoreThread, ignoreOut, finalOut,
                 stop, status, hist>>

\* ready.replace(working) and the "started:" line (a missing .ready raises
\* and the job is skipped with a warning), then the rest of the admit loop
\* body: resolve mcquac.json and main.nf, write the command line, spawn
RClaim(r, spawn) ==
  /\ run[r].pc = "claim"
  /\ LET d == run[r].cur
         claimed == replace_ready(jobdir[d])
         failed(dir) == rename_to_finish(append_line(dir, "error"))
         next == [run EXCEPT ![r].pc = "admit"]
     IN  IF ~jobdir[d].ready
         THEN /\ status' = Emit("warn_claim", d)
              /\ run' = next
              /\ UNCHANGED <<jobdir, hist>>
         ELSE IF ~find_mcquac_json(claimed) \/ ~cfg.main_nf
         THEN /\ jobdir' = [jobdir EXCEPT ![d] = failed(claimed)]
              /\ status' = Emit("err", d)
              /\ hist' = [hist EXCEPT ![d].claims = @ + 1, ![d].finishes = @ + 1]
              /\ run' = next
         ELSE IF spawn = "ok"
         THEN /\ jobdir' = [jobdir EXCEPT ![d] = append_line(claimed, "cmd")]
              /\ status' = Emit("run", d)
              /\ hist' = [hist EXCEPT ![d].claims = @ + 1, ![d].launches = @ + 1]
              /\ run' = [next EXCEPT ![r].jobs = (d :> "run") @@ @,
                                     ![r].capacity = @ - 1]
         ELSE /\ jobdir' = [jobdir EXCEPT ![d] = failed(append_line(claimed, "cmd"))]
              /\ status' = Emit("err", d)
              /\ hist' = [hist EXCEPT ![d].claims = @ + 1, ![d].finishes = @ + 1]
              /\ run' = next
  /\ UNCHANGED <<envVars, watch, matVars, ignoreThread, ignoreOut, finalOut, stop>>

\* a loop that never looks at its stop event
loop_test_ignores_stop(stop_set) == TRUE

\* `while not stop_evt.is_set()`, the loop test of _worker and _runner_loop
loop_test(stop_set) == ~stop_set

\* a loop that, once stopped, goes on until its processes are reaped
RSleep_drains(r) ==
  /\ run[r].pc = "sleep"
  /\ LET on == loop_test(stop[r]) \/ DOMAIN run[r].jobs # {}
     IN  run' = [run EXCEPT ![r].pc = IF on THEN "reap" ELSE "done",
                            ![r].todo = IF on THEN DOMAIN run[r].jobs ELSE {}]
  /\ UNCHANGED <<envVars, watch, fsVars, matVars, stop, status, hist>>

\* stop_evt.wait(poll_interval), then the loop test and
\* list(running.items()) of the next cycle
RSleep(r) ==
  /\ run[r].pc = "sleep"
  /\ run' = [run EXCEPT ![r].pc = IF loop_test(stop[r]) THEN "reap" ELSE "done",
                        ![r].todo = IF loop_test(stop[r]) THEN DOMAIN run[r].jobs ELSE {}]
  /\ UNCHANGED <<envVars, watch, fsVars, matVars, stop, status, hist>>

\* main(), finally: runner["stop"].set()
SetStop(r) ==
  /\ ~stop[r]
  /\ stop' = [stop EXCEPT ![r] = TRUE]
  /\ UNCHANGED <<envVars, watch, fsVars, matVars, run, status, hist>>

\* the external pipeline process of a tracked job exits with a return code,
\* having written artifacts under output/ and its own .nextflow.log
ProcExit(r, d, rc, arts, nflog) ==
  /\ d \in DOMAIN run[r].jobs
  /\ run[r].jobs[d] = "run"
  /\ run' = [run EXCEPT ![r].jobs[d] = rc]
  /\ jobdir' = [jobdir EXCEPT ![d].output = @ \cup arts, ![d].nflog = nflog]
  /\ UNCHANGED <<envVars, watch, matVars, ignoreThread, ignoreOut, finalOut,
                 stop, status, hist>>

\* a watched source disappears between detection and materialization
SrcVanish(n) ==
  /\ n \in DOMAIN src
  /\ src' = [m \in DOMAIN src \ {n} |-> src[m]]
  /\ UNCHANGED <<cfg, template, fsVars, matVars, runVars, watch>>

\* ------------------------------------------------------------ watcher

MinStableScans == 2
CountCap == 1000000

Min(a, b) == IF a <= b THEN a ELSE b

WatchRoot == "/in1/"

WatchIdle == [history |-> <<>>, q |-> <<>>, scans |-> 0, obs |-> <<>>,
              stopped |-> FALSE, hook |-> "none",
              pc |-> "test", stop_evt |-> FALSE]

\* the mount guard main() injects is `def guard()`, a callable of no
\* parameters; _worker calls the hook with one argument, the folder
HookParams == 0
HookArgs == 1

\* pre_scan_hook(folder): a call whose argument count does not fit raises
\* TypeError before the body runs
pre_scan_hook(nargs) == IF nargs = HookParams THEN "ran" ELSE "raised"

\* a scan that ignores nothing
is_ignored_never(name, ignores) == FALSE

\* fnmatch.translate: the position of the "]" that closes the set opened
\* by the "[" at the head of pat (the first one from the third character
\* on), or 0 when there is none and the "[" stands for itself
SetEnd(pat) ==
  IF \E j \in 3 .. Len(pat) : pat[j] = "]"
  THEN CHOOSE j \in 3 .. Len(pat) :
         pat[j] = "]" /\ \A k \in 3 .. (j - 1) : pat[k] # "]"
  ELSE 0

\* fnmatch.fnmatch(name, pat) for the characters the names are made of:
\* "[seq]" matches one character out of seq, every other character matches
\* itself (no name here holds "*", "?", "!" or "-")
RECURSIVE fnmatch(_, _)
fnmatch(name, pat) ==
  IF pat = <<>> THEN name = <<>>
  ELSE IF Head(pat) = "[" /\ SetEnd(pat) # 0
  THEN /\ name # <<>>
       /\ Head(name) \in { pat[k] : k \in 2 .. (SetEnd(pat) - 1) }
       /\ fnmatch(Tail(name), SubSeq(pat, SetEnd(pat) + 1, Len(pat)))
  ELSE /\ name # <<>>
       /\ Head(name) = Head(pat)
       /\ fnmatch(Tail(name), Tail(pat))

\* is_ignored: every ignore line is taken as a pattern and matched against
\* the path below the folder, which is the base name in a scan that is not
\* recursive, against p.name and against the whole path
is_ignored(name, ignores) ==
  \E ig \in ignores : fnmatch(Base(name), ig) \/ fnmatch(name, ig)

\* file_sizes_folder(folder, ..., show_full_path=True): {path: bytes} of the
\* entries of folder that are not ignored
file_sizes_folder(w, ignores) ==
  LET E == { n \in DOMAIN src : RootOf(n) = w /\ ~is_ignored(n, ignores) }
  IN  [n \in E |-> src[n]]

\* a counter that grows on every sighting, whatever the size
stable_count_never_resets(history, name, size) ==
  IF name \in DOMAIN history THEN history[name].count + 1 ELSE 1

\* the stable_count of one name in the history update of _worker
stable_count(history, name, size) ==
  IF name \in DOMAIN history /\ history[name].size = size
  THEN Min(history[name].count + 1, CountCap)
  ELSE 1

\* a history that keeps the entries of names the scan did not see
update_history_keeps_absent(history, sizes_now) ==
  [n \in DOMAIN history \cup DOMAIN sizes_now |->
     IF n \in DOMAIN sizes_now
     THEN [size |-> sizes_now[n],
           count |-> stable_count(history, n, sizes_now[n])]
     ELSE history[n]]

\* the history update of _worker: new_history holds the names of sizes_now
\* and no others, and replaces history
update_history(history, sizes_now) ==
  [n \in DOMAIN sizes_now |->
     [size |-> sizes_now[n],
      count |-> stable_count(history, n, sizes_now[n])]]

\* str.lower(): "B" is the one upper-case token of the names
Lower(name) == [i \in DOMAIN name |-> IF name[i] = "B" THEN "b" ELSE name[i]]

\* snapshot.sort(key=lambda d: str(d.get("name", "")).lower()); the names of
\* one folder considered here never differ in case only
RECURSIVE SortNames(_)
SortNames(S) ==
  IF S = {} THEN <<>>
  ELSE LET m == CHOOSE n \in S : \A e \in S \ {n} : LexLess(Lower(n), Lower(e))
       IN  <<m>> \o SortNames(S \ {m})

\* a snapshot that lists every name of the history
finalize_snapshot_unfiltered(history) ==
  LET names == SortNames(DOMAIN history)
  IN  [i \in DOMAIN names |->
         Candidate(names[i], history[names[i]].size) @@
         [count |-> history[names[i]].count]]

\* _finalize_snapshot(history, min_stable_scans=2)
finalize_snapshot(history) ==
  LET names == SortNames({ n \in DOMAIN history :
                           history[n].count >= MinStableScans })
  IN  [i \in DOMAIN names |->
         Candidate(names[i], history[names[i]].size) @@
         [count |-> history[names[i]].count]]

\* repr(e), the payload of an error event: a string, which is never empty;
\* iterating it gives its characters
ErrorText == << [char |-> "e"] >>

\* the scans remembered: the sizes_now of the last three successful scans
LastThree(s) == IF Len(s) > 3 THEN SubSeq(s, Len(s) - 2, Len(s)) ELSE s

\* one iteration of _worker: call the hook (what it raises is dropped), read
\* both ignore files, scan, update the history, put the snapshot; any
\* exception after the hook puts an error event instead; then the wait
\* loop, which ends when the interval is over or stop_evt is set
Scan(ok) ==
  /\ ~watch.stopped
  /\ watch.pc = "body"
  /\ watch.scans < MaxScans
  /\ IF ok
     THEN LET ignores == Range(ignoreThread[WatchRoot]) \cup Range(ignoreOut[WatchRoot])
              sizes_now == file_sizes_folder(WatchRoot, ignores)
              new_history == update_history(watch.history, sizes_now)
          IN  watch' = [watch EXCEPT
                          !.history = new_history,
                          !.q = Append(@, [kind |-> "snapshot",
                                           items |-> finalize_snapshot(new_history)]),
                          !.scans = @ + 1,
                          !.hook = pre_scan_hook(HookArgs),
                          !.pc = "test",
                          !.obs = LastThree(Append(@, sizes_now))]
     ELSE watch' = [watch EXCEPT
                      !.q = Append(@, [kind |-> "error", items |-> ErrorText]),
                      !.hook = pre_scan_hook(HookArgs),
                      !.pc = "test",
                      !.scans = @ + 1]
  /\ UNCHANGED <<envVars, fsVars, matVars, runVars>>

\* a worker that puts the closing event and goes on with its loop
WatchTest_goes_on ==
  /\ ~watch.stopped
  /\ watch.pc = "test"
  /\ IF loop_test(watch.stop_evt)
     THEN /\ watch.scans < MaxScans
          /\ watch' = [watch EXCEPT !.pc = "body"]
     ELSE /\ Len(watch.q) < MaxScans + 2
          /\ watch' = [watch EXCEPT
                          !.q = Append(@, [kind |-> "stopped", items |-> <<>>])]
  /\ UNCHANGED <<envVars, fsVars, matVars, runVars>>

\* `while not stop_evt.is_set()` of _worker: the loop goes on into its body,
\* or it ends and the worker puts its closing ("stopped", ts, []) event and
\* returns
WatchTest ==
  /\ ~watch.stopped
  /\ watch.pc = "test"
  /\ IF loop_test(watch.stop_evt)
     THEN /\ watch.scans < MaxScans
          /\ watch' = [watch EXCEPT !.pc = "body"]
     ELSE watch' = [watch EXCEPT !.stopped = TRUE, !.pc = "done",
                                 !.q = Append(@, [kind |-> "stopped", items |-> <<>>])]
  /\ UNCHANGED <<envVars, fsVars, matVars, runVars>>

\* graceful_stop: w["stop"].set()
WatchStop ==
  /\ ~watch.stop_evt
  /\ watch' = [watch EXCEPT !.stop_evt = TRUE]
  /\ UNCHANGED <<envVars, fsVars, matVars, runVars>>

\* a watched source is written to: it appears or its size changes
SrcWrite(n, size) ==
  /\ IF n \in DOMAIN src THEN src[n] # size ELSE TRUE
  /\ src' = (n :> size) @@ src
  /\ UNCHANGED <<cfg, template, fsVars, matVars, runVars, watch>>

\* main(): the event loop runs and has taken no event yet
CoordIdle == [pc |-> "loop", taken |-> 0]

\* item['count']: a dict that holds the key can be subscripted with it, a
\* character of a string cannot (TypeError)
subscript_ok(item, key) == key \in DOMAIN item

\* an event loop that takes the next event while copy_candidates runs
CoordGet_reentrant ==
  /\ coord.pc = "loop"
  /\ coord.taken < Len(watch.q)
  /\ LET ev == watch.q[coord.taken + 1]
         snapshot == ev.items
         took == [coord EXCEPT !.taken = @ + 1]
     IN  IF Len(snapshot) = 0
         THEN /\ coord' = took
              /\ UNCHANGED <<mat, calls, watch, stop>>
         ELSE IF \E i \in DOMAIN snapshot : ~subscript_ok(snapshot[i], "count")
         THEN /\ coord' = [took EXCEPT !.pc = "raised"]
              /\ stop' = [stop EXCEPT ![1] = TRUE]
              /\ watch' = [watch EXCEPT !.stop_evt = TRUE]
              /\ UNCHANGED <<mat, calls>>
         ELSE /\ coord' = took
              /\ mat' = [pc |-> "loop", w |-> WatchRoot, snap |-> snapshot,
                         jobs_written |-> {}, names_for_ignore |-> <<>>,
                         copied_paths |-> <<>>]
              /\ calls' = calls + 1
              /\ UNCHANGED <<watch, stop>>
  /\ UNCHANGED <<envVars, fsVars, copied_cache, copyCount, jobCount,
                 run, status, hist>>

\* main(), the loop body for the queue of the watcher: q.get, the listing of
\* the entries (`if not snapshot: continue`, then item['count'] and the
\* other keys of every entry) and the call of copy_candidates. The body
\* stands in try/finally with no except clause: what it raises ends main()
\* after the finally clause has set the stop events.
CoordGet ==
  /\ coord.pc = "loop"
  /\ mat.pc = "idle"
  /\ coord.taken < Len(watch.q)
  /\ LET ev == watch.q[coord.taken + 1]
         snapshot == ev.items
         took == [coord EXCEPT !.taken = @ + 1]
     IN  IF Len(snapshot) = 0
         THEN /\ coord' = took
              /\ UNCHANGED <<mat, calls, watch, stop>>
         ELSE IF \E i \in DOMAIN snapshot : ~subscript_ok(snapshot[i], "count")
         THEN /\ coord' = [took EXCEPT !.pc = "raised"]
              /\ stop' = [stop EXCEPT ![1] = TRUE]
              /\ watch' = [watch EXCEPT !.stop_evt = TRUE]
              /\ UNCHANGED <<mat, calls>>
         ELSE /\ coord' = took
              /\ mat' = [pc |-> "loop", w |-> WatchRoot, snap |-> snapshot,
                         jobs_written |-> {}, names_for_ignore |-> <<>>,
                         copied_paths |-> <<>>]
              /\ calls' = calls + 1
              /\ UNCHANGED <<watch, stop>>
  /\ UNCHANGED <<envVars, fsVars, copied_cache, copyCount, jobCount,
                 run, status, hist>>

RunnerIdle == [pc |-> "sleep", jobs |-> <<>>, todo |-> {}, ready_list |-> <<>>,
               skipped |-> {}, capacity |-> 0, cur |-> <<>>, fault |-> "none"]

InitCommon ==
  /\ src \in [{ k[1] : k \in cfg.cands } -> {2}]
  /\ template = 1
  /\ jobdir = <<>>
  /\ copied_cache = {}
  /\ mat = MatIdle
  /\ calls = 0
  /\ coord = CoordIdle
  /\ ignoreThread = [w \in Roots |-> <<>>]
  /\ ignoreOut = [w \in Roots |-> <<>>]
  /\ finalOut = [w \in Roots |-> <<>>]
  /\ copyCount = [k \in Keys |-> 0]
  /\ jobCount = [k \in Keys |-> 0]
  /\ run = [r \in Runners |-> RunnerIdle]
  /\ stop = [r \in Runners |-> FALSE]
  /\ status = {}
  /\ hist = [d \in AllHashes |-> [claims |-> 0, launches |-> 0, finishes |-> 0]]
  /\ watch = WatchIdle

\* main.py and a second runner loop (mcquac_runner.py run as a script) on
\* the same tmp/; one watch pair with pattern "*"
Init ==
  /\ cfg = [cands |-> { <<<<"/in1/", "a">>, 12>>, <<<<"/in1/", "a", "1">>, 2>> },
            matFaults |-> FALSE,
            runners |-> {1, 2},
            max_parallel |-> 1,
            main_nf |-> TRUE,
            spawns |-> {"ok", "notfound"},
            rcs |-> {"rc0", "rc1"},
            pool |-> { [id |-> "h1", mtime |-> 1, size |-> 1] },
            nflogs |-> {TRUE},
            postFaults |-> {"none"},
            cwd |-> ProjectRoot]
  /\ InitCommon

Materializer ==
  \/ \E w \in Roots : \E snap \in Snapshots(w) : MatBegin(w, snap)
  \/ \E copyOk \in Faults(cfg.matFaults), tmplOk \in Faults(cfg.matFaults) :
       MatStep(copyOk, tmplOk)
  \/ MatEnd

Runner(r) ==
  \/ \E d \in run[r].todo :
       \E best \in (IF jobdir[d].output = {} THEN {NoArt} ELSE Best(jobdir[d].output)),
          fault \in cfg.postFaults : RReapPoll(r, d, best, fault)
  \/ RFinalize(r)
  \/ RList(r)
  \/ RSort(r)
  \/ RAdmit(r)
  \/ \E spawn \in cfg.spawns : RClaim(r, spawn)
  \/ RSleep(r)

Processes ==
  \E r \in cfg.runners, d \in DOMAIN jobdir, rc \in cfg.rcs,
     arts \in SUBSET cfg.pool, nflog \in cfg.nflogs :
    ProcExit(r, d, rc, arts, nflog)

Next ==
  \/ Materializer
  \/ \E r \in cfg.runners : Runner(r)
  \/ Processes

Spec == Init /\ [][Next]_vars

\* copy_candidates alone, with copy and template failures and sources that
\* vanish; three snapshots
InitMat ==
  /\ cfg = [cands |-> { <<<<"/in1/", "a">>, 12>>, <<<<"/in1/", "a", "1">>, 2>>,
                        <<<<"/in1/", "a">>, 2>> },
            matFaults |-> TRUE,
            runners |-> {},
            max_parallel |-> 1,
            main_nf |-> TRUE,
            spawns |-> {"ok"},
            rcs |-> {"rc0"},
            pool |-> {},
            nflogs |-> {TRUE},
            postFaults |-> {"none"},
            cwd |-> ProjectRoot]
  /\ InitCommon

NextMat ==
  \/ Materializer
  \/ \E n \in DOMAIN src : SrcVanish(n)

SpecMat == InitMat /\ [][NextMat]_vars

\* main.py alone: one runner loop, three sources with three job directories,
\* every value start_runner_thread may be handed for max_parallel
InitOne ==
  /\ cfg \in { [cands |-> { <<<<"/in1/", "a">>, 12>>, <<<<"/in1/", "x", ".raw">>, 2>>,
                            <<<<"/in1/", "x", ".d">>, 2>> },
                matFaults |-> FALSE,
                runners |-> {1},
                max_parallel |-> mp,
                main_nf |-> TRUE,
                spawns |-> {"ok"},
                rcs |-> {"rc0"},
                pool |-> { [id |-> "h1", mtime |-> 1, size |-> 1] },
                nflogs |-> {TRUE},
                postFaults |-> {"none"},
                cwd |-> ProjectRoot] : mp \in 0 .. MaxPar }
  /\ InitCommon

NextOne ==
  \/ Materializer
  \/ \E r \in cfg.runners : Runner(r)
  \/ Processes

SpecOne == InitOne /\ [][NextOne]_vars

\* info.json of a job directory is lost or left unreadable
InfoLost(d) ==
  /\ d \in DOMAIN jobdir
  /\ jobdir[d].info # NoInfo
  /\ jobdir' = [jobdir EXCEPT ![d].info = NoInfo]
  /\ UNCHANGED <<envVars, watch, matVars, ignoreThread, ignoreOut, finalOut, runVars>>

\* one runner loop and one source; its pipeline run ends with either return code and any
\* set of result artifacts, and whose post-processing file operations can fail
InitPost ==
  /\ cfg = [cands |-> { <<<<"/in1/", "x", ".raw">>, 2>> },
            matFaults |-> FALSE,
            runners |-> {1},
            max_parallel |-> 1,
            main_nf |-> TRUE,
            spawns |-> {"ok"},
            rcs |-> {"rc0", "rc1"},
            pool |-> { [id |-> "h1", mtime |-> 1, size |-> 1],
                       [id |-> "h2", mtime |-> 1, size |-> 2],
                       [id |-> "h3", mtime |-> 0, size |-> 3] },
            nflogs |-> BOOLEAN,
            postFaults |-> {"none", "copy", "ignore", "clear"},
            cwd |-> ProjectRoot]
  /\ InitCommon

NextPost ==
  \/ Materializer
  \/ \E r \in cfg.runners : Runner(r)
  \/ Processes
  \/ \E d \in DOMAIN jobdir : InfoLost(d)
  \/ \E r \in cfg.runners : SetStop(r)

SpecPost == InitPost /\ [][NextPost]_vars

\* one watcher on /in1/ with pattern "*", two sources being written to, and
\* an ignore.txt of the final output root that may hold a line already
InitWatch ==
  /\ cfg = [cands |-> { <<<<"/in1/", "a">>, 2>>, <<<<"/in1/", "x", ".raw">>, 2>> },
            matFaults |-> FALSE,
            runners |-> {},
            max_parallel |-> 1,
            main_nf |-> TRUE,
            spawns |-> {"ok"},
            rcs |-> {"rc0"},
            pool |-> {},
            nflogs |-> {TRUE},
            postFaults |-> {"none"},
            cwd |-> ProjectRoot]
  /\ src \in [{ k[1] : k \in cfg.cands } -> {2}]
  /\ template = 1
  /\ jobdir = <<>>
  /\ copied_cache = {}
  /\ mat = MatIdle
  /\ calls = 0
  /\ coord = CoordIdle
  /\ ignoreThread = [w \in Roots |-> <<>>]
  /\ ignoreOut \in { [w \in Roots |-> <<>>],
                     [w \in Roots |-> IF w = WatchRoot THEN << <<"x", ".raw">> >> ELSE <<>>] }
  /\ finalOut = [w \in Roots |-> <<>>]
  /\ copyCount = [k \in Keys |-> 0]
  /\ jobCount = [k \in Keys |-> 0]
  /\ run = [r \in Runners |-> RunnerIdle]
  /\ stop = [r \in Runners |-> FALSE]
  /\ status = {}
  /\ hist = [d \in AllHashes |-> [claims |-> 0, launches |-> 0, finishes |-> 0]]
  /\ watch = WatchIdle

NextWatch ==
  \/ WatchTest
  \/ \E ok \in BOOLEAN : Scan(ok)
  \/ WatchStop
  \/ \E n \in { k[1] : k \in cfg.cands }, size \in AllSizes : SrcWrite(n, size)
  \/ \E n \in DOMAIN src : SrcVanish(n)

SpecWatch == InitWatch /\ [][NextWatch]_vars

\* config/mcquac.json is edited between two materializer invocations
TemplateEdit(v) ==
  /\ v # template
  /\ template' = v
  /\ UNCHANGED <<cfg, src, fsVars, matVars, runVars, watch>>

\* copy_candidates is next called with a fresh dedupe cache
FreshCache ==
  /\ mat.pc = "idle"
  /\ copied_cache # {}
  /\ copied_cache' = {}
  /\ UNCHANGED <<envVars, watch, fsVars, mat, calls, coord, copyCount, jobCount, runVars>>

\* the materializer alone, called again on the job directories it populated
\* before: two sources with distinct digest inputs, no runner
InitRemat ==
  /\ cfg = [cands |-> { <<<<"/in1/", "a">>, 2>>, <<<<"/in1/", "x", ".raw">>, 2>> },
            matFaults |-> TRUE,
            runners |-> {},
            max_parallel |-> 1,
            main_nf |-> TRUE,
            spawns |-> {"ok"},
            rcs |-> {"rc0"},
            pool |-> {},
            nflogs |-> {TRUE},
            postFaults |-> {"none"},
            cwd |-> ProjectRoot]
  /\ InitCommon

NextRemat ==
  \/ Materializer
  \/ FreshCache
  \/ \E v \in 1 .. MaxTmpl : TemplateEdit(v)

SpecRemat == InitRemat /\ [][NextRemat]_vars

\* the base names that can be queued for an ignore file
BaseNames == { Base(n) : n \in AllNames }

\* the batches of at most MaxBatch names
Batches == UNION { [1 .. n -> BaseNames] : n \in 1 .. MaxBatch }

\* _append_to_ignore_filenames(ignore_file, names) called on the thread
\* ignore file of a watch pair
BatchAppend(w, names) ==
  /\ Len(ignoreThread[w]) + Len(names) <= MaxLines
  /\ ignoreThread' = [ignoreThread EXCEPT ![w] = append_to_ignore_filenames(@, names)]
  /\ UNCHANGED <<envVars, watch, jobdir, ignoreOut, finalOut, matVars, runVars>>

\* _append_to_ignore_file(ignore_file, filename) called on the ignore.txt of
\* a final output root
SingleAppend(w, name) ==
  /\ Len(ignoreOut[w]) < MaxLines
  /\ ignoreOut' = [ignoreOut EXCEPT ![w] = append_to_ignore_file(@, name)]
  /\ UNCHANGED <<envVars, watch, jobdir, ignoreThread, finalOut, matVars, runVars>>

\* the two ignore-file appenders applied to the files of one watch pair
InitIgnore ==
  /\ cfg = [cands |-> { <<<<"/in1/", "a">>, 2>> },
            matFaults |-> FALSE,
            runners |-> {},
            max_parallel |-> 1,
            main_nf |-> TRUE,
            spawns |-> {"ok"},
            rcs |-> {"rc0"},
            pool |-> {},
            nflogs |-> {TRUE},
            postFaults |-> {"none"},
            cwd |-> ProjectRoot]
  /\ InitCommon

NextIgnore ==
  \/ \E names \in Batches : BatchAppend(WatchRoot, names)
  \/ \E name \in BaseNames : SingleAppend(WatchRoot, name)

SpecIgnore == InitIgnore /\ [][NextIgnore]_vars

\* one runner loop with one slot and two sources whose jobs cannot be
\* dispatched: the pipeline entry point is missing, or the spawn fails
InitDispatch ==
  /\ cfg \in { [cands |-> { <<<<"/in1/", "a">>, 12>>, <<<<"/in1/", "x", ".raw">>, 2>> },
                matFaults |-> FALSE,
                runners |-> {1},
                max_parallel |-> 1,
                main_nf |-> nf,
                spawns |-> {"ok", "notfound", "oserror"},
                rcs |-> {"rc0"},
                pool |-> { [id |-> "h1", mtime |-> 1, size |-> 1] },
                nflogs |-> {TRUE},
                postFaults |-> {"none"},
                cwd |-> ProjectRoot] : nf \in BOOLEAN }
  /\ InitCommon

SpecDispatch == InitDispatch /\ [][Next]_vars

\* ------------------------------------------------------------ claims

Markers(d) == { m \in {"ready", "working", "finish"} : jobdir[d][m] }

\* C1: over any sequence of copy_candidates invocations that share one
\* dedupe cache, each (name, size) is copied into staging at most once and
\* triggers the creation of job artifacts at most once.
C1_AtMostOnce ==
  \A k \in Keys : copyCount[k] <= 1 /\ jobCount[k] <= 1

\* C1 witness: a later snapshot presents a pair that was already copied and
\* made a job of.
C1_Reappears ==
  /\ mat.pc = "loop"
  /\ mat.snap # <<>>
  /\ calls >= 2
  /\ LET k == <<Head(mat.snap).name, Head(mat.snap).size>>
     IN  k \in copied_cache /\ copyCount[k] = 1 /\ jobCount[k] = 1

\* C2 (as stated): every job directory is claimed (.ready -> .working) at
\* most once and at most one pipeline process is ever launched for it.
C2_ClaimedOnce ==
  \A d \in DOMAIN jobdir : hist[d].claims <= 1 /\ hist[d].launches <= 1

\* C3 (as stated): a job directory never holds more than one of .ready,
\* .working, .finish.
C3_OneMarker ==
  \A d \in DOMAIN jobdir : Cardinality(Markers(d)) <= 1

\* C4 (as stated): once .finish exists in a job directory, no step creates,
\* renames or removes a lifecycle marker there.
C4_FinishIsFinal ==
  [][\A d \in DOMAIN jobdir :
       jobdir[d].finish =>
         /\ jobdir'[d].finish
         /\ jobdir'[d].ready = jobdir[d].ready
         /\ jobdir'[d].working = jobdir[d].working]_vars

Tracked(d) == \E r \in cfg.runners : d \in DOMAIN run[r].jobs

\* C7 (as stated): every job that a runner moved to working is moved to
\* finish exactly once; a claimed job that no runner tracks any more has
\* been finished as often as it was claimed.
C7_ClaimedIsFinished ==
  \A d \in DOMAIN jobdir : ~Tracked(d) => hist[d].finishes = hist[d].claims

\* C8 (as stated): when a tracked process has exited, the runner's closing
\* step leaves .finish holding the finish timestamp and the return code and
\* emits the status event of a finished job.
C8_ExitIsRecorded ==
  [][\A r \in cfg.runners :
       run[r].pc = "fin" /\ run'[r].pc # "fin" =>
         LET d == run[r].cur
         IN  /\ jobdir'[d].finish
             /\ {"finished", "returncode"} \subseteq jobdir'[d].flines
             /\ <<"ok", d>> \in status']_vars

\* C5: the number of pipeline processes a runner has launched and not yet
\* reaped never exceeds max_parallel, taken as 1 when it is given below 1.
C5_ParallelBound ==
  \A r \in cfg.runners :
    Cardinality(DOMAIN run[r].jobs)
      <= (IF cfg.max_parallel < 1 THEN 1 ELSE cfg.max_parallel)

\* C5 witness: max_parallel was given as 0, one process is in flight and
\* another job directory is ready and waiting.
C5_AtLimit ==
  /\ cfg.runners = {1}
  /\ cfg.max_parallel = 0
  /\ Cardinality(DOMAIN run[1].jobs) = 1
  /\ \E d \in DOMAIN jobdir : jobdir[d].ready /\ d \notin DOMAIN run[1].jobs

\* the reap step of runner r for an exited job: post-processing and the two
\* appended lines
ReapStep(r) == run[r].pc = "reap" /\ run'[r].pc = "fin"

\* the file name under which the result of job directory hd is published
Published(hd) == Stem(hd.info.name) \o <<".hdf5">>

\* C9: when a job's process exited with code 0, its output area holds at
\* least one .hdf5 and no file operation fails, the reap cycle leaves
\* <source stem>.hdf5 in the final output root, taken from the newest
\* artifact (the larger one among equally new), the source name in the
\* pair's ignore.txt, input and output empty, and the marker .finish.
C9_SuccessRelocates ==
  [][\A r \in cfg.runners :
       /\ ReapStep(r) =>
            LET d == run'[r].cur
                hd == jobdir[d]
            IN  ( /\ run[r].jobs[d] = "rc0"
                  /\ hd.info # NoInfo
                  /\ hd.output # {}
                  /\ run'[r].fault = "none" ) =>
                  LET out == finalOut'[hd.info.root]
                  IN  /\ Published(hd) \in DOMAIN out
                      /\ out[Published(hd)] \in hd.output
                      /\ \A b \in hd.output :
                           \/ b.mtime < out[Published(hd)].mtime
                           \/ /\ b.mtime = out[Published(hd)].mtime
                              /\ b.size <= out[Published(hd)].size
                      /\ hd.info.name \in Range(ignoreOut'[hd.info.root])
                      /\ jobdir'[d].input = {}
                      /\ jobdir'[d].output = {}
       /\ (run[r].pc = "fin" /\ run'[r].pc # "fin") =>
            LET d == run[r].cur
            IN  /\ Markers(d)' = {"finish"}
                /\ jobdir'[d].input = jobdir[d].input
                /\ jobdir'[d].output = jobdir[d].output]_vars

\* C9 witness: a finished job whose result was published from the larger of
\* two equally new artifacts, with its source name in ignore.txt and its
\* staging directories emptied.
C9_Published ==
  \E d \in DOMAIN jobdir :
    /\ jobdir[d].finish
    /\ jobdir[d].info # NoInfo
    /\ <<"out", d>> \in status
    /\ Published(jobdir[d]) \in DOMAIN finalOut[jobdir[d].info.root]
    /\ finalOut[jobdir[d].info.root][Published(jobdir[d])].id = "h2"
    /\ jobdir[d].info.name \in Range(ignoreOut[jobdir[d].info.root])
    /\ jobdir[d].input = {} /\ jobdir[d].output = {}

\* the reap step of runner r runs success post-processing with a readable
\* info.json
SuccessStep(r) ==
  /\ ReapStep(r)
  /\ run[r].jobs[run'[r].cur] = "rc0"
  /\ jobdir[run'[r].cur].info # NoInfo

LastEvent == watch.q[Len(watch.q)]
CandidateSet == { it.name : it \in Range(LastEvent.items) }
CountOf(n) == (CHOOSE it \in Range(LastEvent.items) : it.name = n).count

\* name n was seen with one and the same size in the successful scans i and j
SameSize(n, i, j) ==
  /\ n \in DOMAIN watch.obs[i]
  /\ n \in DOMAIN watch.obs[j]
  /\ watch.obs[i][n] = watch.obs[j][n]

\* C6: in the snapshot of a successful scan a name is a candidate exactly
\* when the latest two successful scans saw it with the same size; it is
\* there with count 2 when the scan before those did not see it with that
\* size, and a name whose size differs from the previous scan has its count
\* back at 1 and is no candidate.
C6_StabilityPromotion ==
  (watch.q # <<>> /\ LastEvent.kind = "snapshot") =>
    LET k == Len(watch.obs)
    IN  \A n \in AllNames :
          /\ n \in CandidateSet <=> (k >= 2 /\ SameSize(n, k - 1, k))
          /\ (k >= 2 /\ SameSize(n, k - 1, k) /\ (k >= 3 => ~SameSize(n, k - 2, k)))
               => CountOf(n) = 2 /\ watch.history[n].size = watch.obs[k][n]
          /\ (k >= 2 /\ n \in DOMAIN watch.obs[k] /\ ~SameSize(n, k - 1, k))
               => watch.history[n].count = 1 /\ n \notin CandidateSet

\* C6 witness: after a successful scan, a failed one and another successful
\* one, one name kept its size and is a candidate with count 2 while
\* another changed its size and is back at count 1.
C6_PromotedAndReset ==
  /\ Len(watch.q) >= 3
  /\ LastEvent.kind = "snapshot"
  /\ watch.q[Len(watch.q) - 1].kind = "error"
  /\ Len(watch.obs) >= 2
  /\ \E n, m \in DOMAIN watch.history :
       /\ n \in CandidateSet /\ CountOf(n) = 2
       /\ m \in DOMAIN watch.obs[Len(watch.obs) - 1]
       /\ watch.obs[Len(watch.obs) - 1][m] # watch.obs[Len(watch.obs)][m]
       /\ watch.history[m].count = 1

\* the file name under which the error log of job directory hd is published
PublishedLog(hd) == Stem(hd.info.name) \o <<".error.log">>

\* C11 (as stated): when a job's process exited with a nonzero code, its
\* output area holds no result artifact and no file operation fails, the
\* reap step leaves <source stem>.error.log, a copy of the process's log,
\* in the final output root.
C11_FailureLogPublished ==
  [][\A r \in cfg.runners :
       ReapStep(r) =>
         LET d == run'[r].cur
             hd == jobdir[d]
         IN  ( /\ run[r].jobs[d] = "rc1"
               /\ hd.info # NoInfo
               /\ hd.output = {}
               /\ run'[r].fault = "none" ) =>
               PublishedLog(hd) \in DOMAIN finalOut'[hd.info.root]]_vars

\* C12 (as stated): a further materializer call on a populated job
\* directory leaves its mcquac.json and its info.json as they were.
C12_ParamsKept ==
  [][\A d \in DOMAIN jobdir :
       /\ jobdir[d].mcquac # NoParams => jobdir'[d].mcquac = jobdir[d].mcquac
       /\ jobdir[d].info # NoInfo => jobdir'[d].info = jobdir[d].info]_vars

\* C13 (as stated): materializing into a job directory that already holds
\* .working or .finish creates no new .ready there.
C13_NoNewReady ==
  [][\A d \in DOMAIN jobdir :
       ((jobdir[d].working \/ jobdir[d].finish) /\ ~jobdir[d].ready)
         => ~jobdir'[d].ready]_vars

\* the lines of an ignore file that hold the given name
LinesOf(file, name) == { i \in DOMAIN file : file[i] = name }

\* C14 (as stated): however often a name was appended, by either appender,
\* in several calls or within one batch, the ignore file holds one line
\* for it.
C14_OneLinePerName ==
  \A w \in Roots, name \in BaseNames :
    /\ Cardinality(LinesOf(ignoreThread[w], name)) <= 1
    /\ Cardinality(LinesOf(ignoreOut[w], name)) <= 1

\* C15 (as stated): two distinct (name, size) pairs never hand the digest
\* the same input, so the pairs that were materialized have pairwise
\* distinct job directories.
C15_DistinctDigestInputs ==
  \A k1, k2 \in copied_cache :
    k1 # k2 => make_hash(k1[1], k1[2]) # make_hash(k2[1], k2[2])

\* C16 (as stated): an error in any step of a scan cycle, the hook
\* included, ends the cycle with an 'error' event on the watcher's queue.
C16_HookErrorReported ==
  [][(watch'.scans = watch.scans + 1 /\ watch'.hook = "raised")
       => watch'.q[Len(watch'.q)].kind = "error"]_vars

\* C17 (as stated): no failure inside the runner loop body ends the runner
\* thread; every runner loop is still running or was stopped.
C17_RunnerSurvives ==
  \A r \in cfg.runners : run[r].pc # "crashed"

\* the step of runner r that ends its claim attempt on the directory cur,
\* which held .ready
ClaimStep(r) ==
  /\ run[r].pc = "claim"
  /\ run'[r].pc # "claim"
  /\ jobdir[run[r].cur].ready

\* what a dispatch that failed leaves behind: .finish alone with the error
\* note, an [ERR] status, no process, the slot and the rest of the ready
\* list as they were, the loop going on with its admit phase
DispatchFailed(r, d) ==
  /\ Markers(d)' = {"finish"}
  /\ "error" \in jobdir'[d].flines
  /\ <<"err", d>> \in status'
  /\ hist'[d].launches = hist[d].launches
  /\ d \notin DOMAIN run'[r].jobs
  /\ run'[r].capacity = run[r].capacity
  /\ run'[r].ready_list = run[r].ready_list
  /\ run'[r].pc = "admit"

C19_LaunchFailureFinishes ==
  [][\A r \in cfg.runners :
       ( /\ ClaimStep(r)
         /\ jobdir[run[r].cur].mcquac # NoParams
         /\ cfg.main_nf
         /\ <<"run", run[r].cur>> \notin status' )
         => /\ DispatchFailed(r, run[r].cur)
            /\ "cmd" \in jobdir'[run[r].cur].flines
            /\ hist'[run[r].cur].claims = 1]_vars

\* C19 witness: a job whose spawn failed is finished with the command and
\* the error in its marker, and the runner has since launched another job.
C19_FailedThenLaunched ==
  /\ cfg.main_nf
  /\ \E d, e \in DOMAIN jobdir :
       /\ jobdir[d].finish
       /\ {"cmd", "error"} \subseteq jobdir[d].flines
       /\ <<"err", d>> \in status
       /\ hist[d].launches = 0
       /\ hist[e].launches = 1
       /\ e \in DOMAIN run[1].jobs

\* main.py's pipeline with max_parallel raised to MaxPar: one runner loop, a
\* pair of sources sharing a job directory and a third source with its own
InitOrder ==
  /\ cfg = [cands |-> { <<<<"/in1/", "a">>, 12>>, <<<<"/in1/", "a", "1">>, 2>>,
                        <<<<"/in1/", "x", ".raw">>, 2>> },
            matFaults |-> FALSE,
            runners |-> {1},
            max_parallel |-> MaxPar,
            main_nf |-> TRUE,
            spawns |-> {"ok"},
            rcs |-> {"rc0"},
            pool |-> { [id |-> "h1", mtime |-> 1, size |-> 1] },
            nflogs |-> {TRUE},
            postFaults |-> {"none"},
            cwd |-> ProjectRoot]
  /\ InitCommon

SpecOrder == InitOrder /\ [][NextOne]_vars

\* job directory e comes before d in (.ready modification time, name)
Older(e, d) ==
  \/ jobdir[e].rmtime < jobdir[d].rmtime
  \/ jobdir[e].rmtime = jobdir[d].rmtime /\ LexLess(e, d)

\* C20: when the runner takes a ready job up for claiming, no job still
\* waiting in this cycle's ready list is older by (marker modification
\* time, directory name).
C20_OldestFirst ==
  [][\A r \in cfg.runners :
       (run[r].pc = "admit" /\ run'[r].pc = "claim")
         => \A e \in Range(run'[r].ready_list) : ~Older(e, run'[r].cur)]_vars

\* C20 witness: the runner is claiming a ready job while a job whose marker
\* is newer waits behind it in the same ready list.
C20_NewerWaits ==
  /\ run[1].pc = "claim"
  /\ run[1].ready_list # <<>>
  /\ jobdir[run[1].cur].ready
  /\ jobdir[Head(run[1].ready_list)].ready
  /\ jobdir[run[1].cur].rmtime < jobdir[Head(run[1].ready_list)].rmtime

\* C20, whole admit phase: when a claim completes, no job of this cycle's
\* ready list that is older by (marker modification time, directory name)
\* has been passed over and still holds its .ready marker.
C20_NoOlderLeftUnclaimed ==
  [][\A r \in cfg.runners :
       (run[r].pc = "claim" /\ jobdir[run[r].cur].ready /\ run'[r].pc = "admit")
         => \A e \in run[r].skipped :
              ~(jobdir'[e].ready /\ Older(e, run[r].cur))]_vars

\* main.py with two watch pairs: start_watch_thread is given
\* use_full_path=True, so both watchers report absolute paths; the roots
\* /in1/ and /in2/ each hold a file "a" of two bytes
InitPairs ==
  /\ cfg = [cands |-> { <<<<"/in1/", "a">>, 2>>, <<<<"/in2/", "a">>, 2>>,
                        <<<<"/in1/", "x", ".raw">>, 2>> },
            matFaults |-> TRUE,
            runners |-> {},
            max_parallel |-> 1,
            main_nf |-> TRUE,
            spawns |-> {"ok"},
            rcs |-> {"rc0"},
            pool |-> {},
            nflogs |-> {TRUE},
            postFaults |-> {"none"},
            cwd |-> ProjectRoot]
  /\ InitCommon

SpecPairs == InitPairs /\ [][NextMat]_vars

\* two reported candidates lie in different roots and have the same name
\* relative to their root and the same size
SameRelative(k1, k2) ==
  /\ RootOf(k1[1]) # RootOf(k2[1])
  /\ Base(k1[1]) = Base(k2[1])
  /\ k1[2] = k2[2]

\* C21 (as stated): of two candidates with the same relative name and size
\* reported from different roots, only the first to be materialized is
\* copied; the invocation for the other one skips it.
C21_SecondRootSkipped ==
  \A k1, k2 \in Keys :
    SameRelative(k1, k2) => copyCount[k1] = 0 \/ copyCount[k2] = 0

\* C22 (as stated): in every scan cycle the body of the mount guard has
\* been executed by the time the cycle's event is put on the queue.
C22_GuardBodyRuns ==
  [][watch'.scans = watch.scans + 1 => watch'.hook = "ran"]_vars

\* the steps of the watcher thread
Watcher ==
  \/ WatchTest
  \/ \E ok \in BOOLEAN : Scan(ok)

\* one watcher on /in1/ whose source is being written to, and
\* graceful_stop(watchers) of main()
InitStop ==
  /\ cfg = [cands |-> { <<<<"/in1/", "a">>, 2>> },
            matFaults |-> FALSE,
            runners |-> {},
            max_parallel |-> 1,
            main_nf |-> TRUE,
            spawns |-> {"ok"},
            rcs |-> {"rc0"},
            pool |-> {},
            nflogs |-> {TRUE},
            postFaults |-> {"none"},
            cwd |-> ProjectRoot]
  /\ InitCommon

NextStop ==
  \/ Watcher
  \/ WatchStop
  \/ \E n \in { k[1] : k \in cfg.cands }, size \in AllSizes : SrcWrite(n, size)
  \/ \E n \in DOMAIN src : SrcVanish(n)

\* the watcher runs in a thread of its own and none of its steps blocks: when
\* it can take a step it eventually takes one
SpecStop == InitStop /\ [][NextStop]_vars /\ WF_vars(Watcher)

\* the steps of a watcher thread whose scans all succeed
WatcherOk ==
  \/ WatchTest
  \/ Scan(TRUE)

\* main.py with one watch pair and the runner thread, and the shutdown of
\* main(): runner["stop"].set() and graceful_stop(watchers)
InitLive ==
  /\ cfg = [cands |-> { <<<<"/in1/", "a">>, 2>> },
            matFaults |-> FALSE,
            runners |-> {1},
            max_parallel |-> 1,
            main_nf |-> TRUE,
            spawns |-> {"ok"},
            rcs |-> {"rc0"},
            pool |-> { [id |-> "h1", mtime |-> 1, size |-> 1] },
            nflogs |-> {TRUE},
            postFaults |-> {"none"},
            cwd |-> ProjectRoot]
  /\ InitCommon

NextLive ==
  \/ Materializer
  \/ Runner(1)
  \/ Processes
  \/ SetStop(1)
  \/ WatcherOk
  \/ WatchStop

\* both loops run in threads of their own and none of their steps blocks:
\* a thread that can take a step eventually takes one; the external
\* processes are under no such obligation
SpecLive == InitLive /\ [][NextLive]_vars /\ WF_vars(WatcherOk) /\ WF_vars(Runner(1))

\* the 'stopped' events on the watcher's queue
StoppedEvents == { i \in DOMAIN watch.q : watch.q[i].kind = "stopped" }

\* C23: once a watcher's stop signal is set, the watcher puts a 'stopped'
\* event on its queue; there is never more than one, it is the last event
\* of the queue, and after it the watcher does nothing more: no scan, no
\* further event.
C23_StoppedOnceAndLast ==
  /\ (watch.stop_evt ~> watch.stopped)
  /\ [](/\ Cardinality(StoppedEvents) <= 1
        /\ watch.stopped <=> StoppedEvents = {Len(watch.q)}
        /\ StoppedEvents # {} => watch.stop_evt)
  /\ [][watch.stopped => UNCHANGED watch]_vars

\* C23 witness: the stop signal came after two scans; the queue ends with
\* the one 'stopped' event.
C23_StoppedAfterScans ==
  /\ watch.stopped
  /\ watch.scans >= 2
  /\ Len(watch.q) = watch.scans + 1
  /\ watch.q[Len(watch.q)].kind = "stopped"

\* C24: under fair scheduling a watcher loop whose stop signal is set ends,
\* and so does the runner loop, whether or not the external processes it
\* started ever exit.
C24_StopTerminates ==
  /\ (watch.stop_evt ~> watch.pc = "done")
  /\ (stop[1] ~> run[1].pc = "done")

\* C24 witness: the runner loop has ended while a process it started is
\* still running, and the watcher loop has ended too.
C24_EndedWithJobInFlight ==
  /\ run[1].pc = "done"
  /\ \E d \in DOMAIN run[1].jobs : run[1].jobs[d] = "run"
  /\ watch.pc = "done"

\* the lines of the two ignore files of the watcher's pair
IgnoreLines == Range(ignoreThread[WatchRoot]) \cup Range(ignoreOut[WatchRoot])

\* the scan cycle that puts a snapshot on the queue
SnapshotStep ==
  /\ watch'.scans = watch.scans + 1
  /\ watch'.q[Len(watch'.q)].kind = "snapshot"

\* C25: a scan that takes a snapshot applies every line that either ignore
\* file of the watcher holds when the scan begins: an entry of the watched
\* folder whose name such a line matches is neither in the scan's snapshot
\* nor in the stability history after the scan.
C25_IgnoresAppliedInScan ==
  [][SnapshotStep =>
       \A n \in DOMAIN src :
         (\E ig \in IgnoreLines : fnmatch(Base(n), ig)) =>
           /\ n \notin DOMAIN watch'.history
           /\ \A it \in Range(watch'.q[Len(watch'.q)].items) : it.name # n]_vars

\* C25 witness: a source was a candidate of an earlier snapshot; since then
\* the materializer and the runner's success post-processing have both
\* appended its name, and the latest scan left it out of snapshot and
\* history although it is still in the watched folder.
C25_AppendedThenSkipped ==
  /\ Len(watch.q) >= 3
  /\ LastEvent.kind = "snapshot"
  /\ \E n \in DOMAIN src :
       /\ \E i \in 1 .. Len(watch.q) - 1 :
            /\ watch.q[i].kind = "snapshot"
            /\ \E it \in Range(watch.q[i].items) : it.name = n
       /\ Base(n) \in Range(ignoreThread[WatchRoot])
       /\ Base(n) \in Range(ignoreOut[WatchRoot])
       /\ n \notin DOMAIN watch.history
       /\ Len(LastEvent.items) = 0

\* main.py started from the project root or from another working directory
\* that holds a config/mcquac.json of its own; one runner loop
InitCwd ==
  /\ cfg \in { [cands |-> { <<<<"/in1/", "a">>, 2>>, <<<<"/in1/", "x", ".raw">>, 2>> },
                matFaults |-> TRUE,
                runners |-> {1},
                max_parallel |-> 1,
                main_nf |-> TRUE,
                spawns |-> {"ok"},
                rcs |-> {"rc0"},
                pool |-> {},
                nflogs |-> {TRUE},
                postFaults |-> {"none"},
                cwd |-> wd] : wd \in {ProjectRoot, "/work/"} }
  /\ InitCommon

SpecCwd == InitCwd /\ [][NextOne]_vars

\* the step in which .ready is created in job directory d
ReadyCreated(d) ==
  /\ jobdir'[d].ready
  /\ IF d \in DOMAIN jobdir THEN ~jobdir[d].ready ELSE TRUE

SeenNow == { n \in DOMAIN src : RootOf(n) = WatchRoot /\ Base(n) \notin IgnoreLines }

\* C27: after a scan that takes a snapshot the stability history holds
\* exactly the names the scan saw; a name the history did not hold before
\* the scan, whatever its size and whatever was known of it earlier, has
\* count 1 after it and is no candidate of the scan's snapshot.
C27_AbsentNamesDropped ==
  [][SnapshotStep =>
       /\ DOMAIN watch'.history = SeenNow
       /\ \A n \in SeenNow \ DOMAIN watch.history :
            /\ watch'.history[n].count = 1
            /\ \A it \in Range(watch'.q[Len(watch'.q)].items) : it.name # n]_vars

\* C27 witness: a name was a candidate, then a scan did not see it and the
\* history dropped it, and the latest scan saw it again with its old size:
\* its count is 1 and the latest snapshot does not list it.
C27_ReappearedAtOne ==
  /\ Len(watch.obs) = 3
  /\ LastEvent.kind = "snapshot"
  /\ \E n \in DOMAIN watch.history :
       /\ \E i \in 1 .. Len(watch.q) - 1 :
            /\ watch.q[i].kind = "snapshot"
            /\ \E it \in Range(watch.q[i].items) : it.name = n
       /\ n \in DOMAIN watch.obs[1]
       /\ n \notin DOMAIN watch.obs[2]
       /\ n \in DOMAIN watch.obs[3]
       /\ watch.obs[3][n] = watch.obs[1][n]
       /\ watch.history[n].count = 1
       /\ n \notin CandidateSet

\* one watcher on /in1/ with pattern "*" and two sources whose names differ
\* in the case of their first letter
InitCase ==
  /\ cfg = [cands |-> { <<<<"/in1/", "B">>, 2>>, <<<<"/in1/", "a">>, 2>> },
            matFaults |-> FALSE,
            runners |-> {},
            max_parallel |-> 1,
            main_nf |-> TRUE,
            spawns |-> {"ok"},
            rcs |-> {"rc0"},
            pool |-> {},
            nflogs |-> {TRUE},
            postFaults |-> {"none"},
            cwd |-> ProjectRoot]
  /\ InitCommon

SpecCase == InitCase /\ [][NextWatch]_vars

\* the event a scan cycle has just put on the queue
NewEvent == watch'.q[Len(watch'.q)]

\* the snapshot event just put lists exactly the names of count >= 2, each
\* once, with its size and the hash of name and size
ListsStableNames ==
  LET items == NewEvent.items
      h == watch'.history
  IN  /\ { items[i].name : i \in DOMAIN items } = { n \in DOMAIN h : h[n].count >= 2 }
      /\ \A i, j \in DOMAIN items : items[i].name = items[j].name => i = j
      /\ \A i \in DOMAIN items :
           /\ items[i].size = h[items[i].name].size
           /\ items[i].count = h[items[i].name].count
           /\ items[i].hash = make_hash(items[i].name, items[i].size)

\* a scan cycle puts exactly one event, a snapshot or an error
OneEventPerCycle ==
  /\ Len(watch'.q) = Len(watch.q) + 1
  /\ SubSeq(watch'.q, 1, Len(watch.q)) = watch.q
  /\ NewEvent.kind \in {"snapshot", "error"}

\* C28 (as stated): every scan cycle that succeeds puts exactly one snapshot
\* event; it lists exactly the names of count >= 2 with their hashes, in the
\* order of the names.
C28_OrderedByName ==
  [][watch'.scans = watch.scans + 1 =>
       /\ OneEventPerCycle
       /\ NewEvent.kind = "snapshot" =>
            /\ ListsStableNames
            /\ \A i, j \in DOMAIN NewEvent.items :
                 i < j => LexLess(NewEvent.items[i].name, NewEvent.items[j].name)]_vars

\* C28 (amended): as above, the order being that of the lower-cased names.
C28_OrderedByLowerCasedName ==
  [][watch'.scans = watch.scans + 1 =>
       /\ OneEventPerCycle
       /\ NewEvent.kind = "snapshot" =>
            /\ ListsStableNames
            /\ \A i, j \in DOMAIN NewEvent.items :
                 i < j => LexLess(Lower(NewEvent.items[i].name),
                                  Lower(NewEvent.items[j].name))]_vars

\* C28 witness: the first scan put a snapshot without candidates; the latest
\* snapshot lists both names, "a" before "B".
C28_EmptyThenBoth ==
  /\ Len(watch.q) >= 2
  /\ watch.q[1] = [kind |-> "snapshot", items |-> <<>>]
  /\ LastEvent.kind = "snapshot"
  /\ Len(LastEvent.items) = 2
  /\ LastEvent.items[1].name = <<"/in1/", "a">>
  /\ LastEvent.items[2].name = <<"/in1/", "B">>

\* the materializer has dealt with the first entry of what is left of its
\* snapshot
ItemStep == mat.pc = "loop" /\ mat.snap # <<>> /\ mat' # mat

\* C29: whatever happens to one candidate of a snapshot (its copy fails, the
\* template is missing, nothing fails), the invocation goes on with the
\* candidates after it and ends only when none is left; a candidate that
\* was not copied leaves the dedupe cache as it was.
C29_FailureDoesNotAbort ==
  [][/\ ItemStep =>
          /\ mat'.pc = "loop"
          /\ mat'.snap = Tail(mat.snap)
          /\ copyCount' = copyCount => copied_cache' = copied_cache
     /\ (mat.pc = "loop" /\ mat'.pc = "idle") => mat.snap = <<>>]_vars

\* C29 witness: in one and the same invocation the copy of one candidate
\* failed (its job directory is there, empty, and the cache does not hold
\* it) and the candidate after it was copied and made a job.
C29_FailedThenCopied ==
  /\ calls = 1
  /\ \E k1, k2 \in Keys :
       /\ k1 # k2
       /\ k1[1] \in DOMAIN src /\ src[k1[1]] = k1[2]
       /\ copyCount[k1] = 0 /\ k1 \notin copied_cache
       /\ make_hash(k1[1], k1[2]) \in DOMAIN jobdir
       /\ jobdir[make_hash(k1[1], k1[2])].input = {}
       /\ copyCount[k2] = 1 /\ k2 \in copied_cache
       /\ make_hash(k2[1], k2[2]) \in DOMAIN jobdir
       /\ jobdir[make_hash(k2[1], k2[2])].ready

\* C30: a candidate whose source is gone when the materializer comes to it
\* is passed over: no job directory is created or changed, the dedupe
\* cache, the ignore files, the names queued for the ignore file and the
\* list of copied paths stay as they are, and the loop goes on.
C30_VanishedSourceSkipped ==
  [][(ItemStep /\ Head(mat.snap).name \notin DOMAIN src) =>
       /\ UNCHANGED <<jobdir, copied_cache, ignoreThread, ignoreOut, copyCount, jobCount>>
       /\ mat'.names_for_ignore = mat.names_for_ignore
       /\ mat'.copied_paths = mat.copied_paths
       /\ mat'.pc = "loop"
       /\ mat'.snap = Tail(mat.snap)]_vars

\* C30 witness: the first invocation has gone through its whole snapshot,
\* whose sources had vanished: the work area holds no job directory, the
\* cache is empty, nothing is queued for the ignore file or returned.
C30_AllSourcesGone ==
  /\ calls = 1
  /\ mat.pc = "loop"
  /\ mat.snap = <<>>
  /\ DOMAIN src # { k[1] : k \in cfg.cands }
  /\ jobdir = <<>>
  /\ copied_cache = {}
  /\ mat.names_for_ignore = <<>>
  /\ mat.copied_paths = <<>>

\* the reap step of runner r for a job whose process exited with a nonzero
\* code while its output area holds a result artifact
SoftFailureStep(r) ==
  /\ ReapStep(r)
  /\ run[r].jobs[run'[r].cur] = "rc1"
  /\ jobdir[run'[r].cur].output # {}

\* C31: for a job whose process exited with a nonzero code while a result
\* artifact exists in its output area, the reap step writes nothing to the
\* final output root (no error log, no relocated artifact), leaves the
\* ignore files, the input copy and the output area as they are and logs
\* the inconsistency when info.json is readable; the closing step then
\* leaves .finish as the only marker.
C31_SoftFailureKeepsAll ==
  [][\A r \in cfg.runners :
       /\ SoftFailureStep(r) =>
            LET d == run'[r].cur
            IN  /\ finalOut' = finalOut
                /\ ignoreOut' = ignoreOut
                /\ ignoreThread' = ignoreThread
                /\ jobdir'[d].input = jobdir[d].input
                /\ jobdir'[d].output = jobdir[d].output
                /\ jobdir[d].info # NoInfo => <<"warn_rc_hdf5", d>> \in status'
                /\ <<"out_errlog", d>> \notin status'
       /\ ( /\ run[r].pc = "fin" /\ run'[r].pc # "fin"
            /\ run[r].jobs[run[r].cur] = "rc1"
            /\ jobdir[run[r].cur].output # {} ) =>
            LET d == run[r].cur
            IN  /\ Markers(d)' = {"finish"}
                /\ "returncode" \in jobdir'[d].flines
                /\ finalOut' = finalOut
                /\ ignoreOut' = ignoreOut
                /\ jobdir'[d].input = jobdir[d].input
                /\ jobdir'[d].output = jobdir[d].output]_vars

\* C31 witness: a job that failed with a result artifact and a process log
\* in place is finished: the final output root and the ignore file are
\* empty, the input copy and the artifact are still staged.
C31_FailedWithArtifactFinished ==
  \E d \in DOMAIN jobdir :
    /\ <<"warn_rc_hdf5", d>> \in status
    /\ Markers(d) = {"finish"}
    /\ jobdir[d].nflog
    /\ jobdir[d].info # NoInfo
    /\ jobdir[d].output # {}
    /\ jobdir[d].input # {}
    /\ finalOut[jobdir[d].info.root] = <<>>
    /\ ignoreOut[jobdir[d].info.root] = <<>>

\* main.py with one watch pair: the watcher of /in1/, whose scans may fail,
\* the event loop of main() taking the watcher's events, and copy_candidates
\* called from it; the one source, named a or a[1], is written to while it
\* is watched
InitCoord ==
  /\ cfg \in { [cands |-> { <<n, 2>> },
                matFaults |-> TRUE,
                runners |-> {},
                max_parallel |-> 1,
                main_nf |-> TRUE,
                spawns |-> {"ok"},
                rcs |-> {"rc0"},
                pool |-> {},
                nflogs |-> {TRUE},
                postFaults |-> {"none"},
                cwd |-> ProjectRoot] :
              n \in { <<"/in1/", "a">>, <<"/in1/", "a", "[", "1", "]">> } }
  /\ InitCommon

NextCoord ==
  \/ Watcher
  \/ WatchStop
  \/ CoordGet
  \/ \E copyOk \in Faults(cfg.matFaults), tmplOk \in Faults(cfg.matFaults) :
       MatStep(copyOk, tmplOk)
  \/ MatEnd
  \/ \E n \in { k[1] : k \in cfg.cands }, size \in AllSizes : SrcWrite(n, size)

SpecCoord == InitCoord /\ [][NextCoord]_vars

\* C32 (as stated): an 'error' or 'stopped' event taken from the watcher's
\* channel is never iterated as a candidate list and never ends the event
\* loop of the coordinator: whatever events it has taken, the loop is still
\* running.
C32_EventLoopSurvives ==
  coord.pc = "loop"

\* C33: when the copy of a candidate succeeds and no job artifacts are
\* written for it (the template is missing, a write fails), the step leaves
\* its (name, size) in the dedupe cache and its copy in input/ without
\* creating .ready; the cache never loses the pair, and every later step
\* that comes to a cached pair passes it over, changing no job directory
\* and creating no marker. The marker is counted for the pair: a job made
\* for another pair in the same directory is not one made for this pair.
C33_StagedNeverBecomesJob ==
  /\ [][ItemStep =>
          LET item == Head(mat.snap)
              key == <<item.name, item.size>>
              h == item.hash
          IN  /\ (copyCount'[key] = copyCount[key] + 1 /\ jobCount'[key] = jobCount[key]) =>
                   /\ key \in copied_cache'
                   /\ Base(item.name) \in jobdir'[h].input
                   /\ jobdir'[h].ready = (h \in DOMAIN jobdir /\ jobdir[h].ready)
              /\ key \in copied_cache =>
                   UNCHANGED <<jobdir, copied_cache, copyCount, jobCount>>]_vars
  /\ [](\A k \in Keys : copyCount[k] >= 1 => k \in copied_cache)
  /\ [][copied_cache \subseteq copied_cache']_vars

\* C33 witness: a second invocation has come to a candidate that the first
\* one copied without making a job of it: its pair is in the cache, its copy
\* is staged and its job directory holds no marker.
C33_StagedPairPresentedAgain ==
  /\ calls = 2
  /\ mat.pc = "loop"
  /\ mat.snap # <<>>
  /\ LET item == Head(mat.snap)
         key == <<item.name, item.size>>
     IN  /\ key \in copied_cache
         /\ copyCount[key] = 1
         /\ jobCount[key] = 0
         /\ item.hash \in DOMAIN jobdir
         /\ Base(item.name) \in jobdir[item.hash].input
         /\ Markers(item.hash) = {}

\* C34 (as stated): once the materializer has appended base name b to the
\* watcher's ignore file, no later scan of that watcher puts an entry named
\* b into its snapshot, whatever size the entry has by then.
C34_AppendedNameNeverEmitted ==
  [][SnapshotStep =>
       \A it \in Range(NewEvent.items) :
         Base(it.name) \notin Range(ignoreThread[WatchRoot])]_vars

\* the result file of the source of the pair k, in the final output root of
\* its watch pair
ResultOf(k) == Stem(Base(k[1])) \o <<".hdf5">>

\* C35: the staging directories of a job are emptied only after its result
\* artifact was copied to the final output root: a runner step that empties
\* input/ or output/ of a job directory leaves <source stem>.hdf5 in the
\* final output root, and in every state a job directory whose source was
\* copied into it and whose input/ is empty again has its <source stem>.hdf5
\* in the final output root.
C35_ClearedOnlyAfterPublished ==
  /\ [][\A d \in DOMAIN jobdir :
          ( \/ jobdir[d].input # {} /\ jobdir'[d].input = {}
            \/ jobdir[d].output # {} /\ jobdir'[d].output = {} ) =>
            /\ jobdir[d].info # NoInfo
            /\ Published(jobdir[d]) \in DOMAIN finalOut'[jobdir[d].info.root]
            /\ finalOut'[jobdir[d].info.root][Published(jobdir[d])] \in jobdir[d].output]_vars
  /\ [](\A k \in Keys :
          ( /\ copyCount[k] >= 1
            /\ make_hash(k[1], k[2]) \in DOMAIN jobdir
            /\ jobdir[make_hash(k[1], k[2])].input = {} ) =>
            ResultOf(k) \in DOMAIN finalOut[RootOf(k[1])])

\* C35 witness: post-processing has just emptied the staging directories of
\* a job that is still marked .working, and the final output root holds its
\* result; the update of the ignore file had failed.
C35_ClearedAndPublished ==
  \E k \in copied_cache :
    LET d == make_hash(k[1], k[2])
    IN  /\ jobdir[d].working
        /\ "returncode" \in jobdir[d].wlines
        /\ jobdir[d].input = {}
        /\ jobdir[d].output = {}
        /\ ResultOf(k) \in DOMAIN finalOut[RootOf(k[1])]
        /\ <<"warn_ignore", d>> \in status

\* C36 (as stated): a marker transition attempted when its source marker is
\* gone fails without changing the job directory: a runner that begins a
\* claim on a directory whose .ready another runner has already taken
\* leaves that directory, the winner's .working and its lines included, as
\* it is.
C36_LostRaceLeavesWinner ==
  [][\A r \in cfg.runners :
       (run[r].pc = "admit" /\ run'[r].pc = "claim") =>
         LET d == run'[r].cur
         IN  ~jobdir[d].ready => jobdir'[d] = jobdir[d]]_vars

\* main.py and a second runner loop on the same tmp/, with one source: its
\* pipeline run ends with either return code, and the file operations of
\* post-processing can fail
InitRace ==
  /\ cfg = [cands |-> { <<<<"/in1/", "x", ".raw">>, 2>> },
            matFaults |-> FALSE,
            runners |-> {1, 2},
            max_parallel |-> 1,
            main_nf |-> TRUE,
            spawns |-> {"ok"},
            rcs |-> {"rc0", "rc1"},
            pool |-> { [id |-> "h1", mtime |-> 1, size |-> 1] },
            nflogs |-> {TRUE},
            postFaults |-> {"none", "copy", "ignore", "clear"},
            cwd |-> ProjectRoot]
  /\ InitCommon

SpecRace == InitRace /\ [][Next]_vars

\* the step of runner r that closes the reap of an exited job
FinalizeStep(r) == run[r].pc = "fin" /\ run'[r].pc # "fin"

\* the step of runner r that computes the capacity of the admit phase
CapacityStep(r) == run[r].pc = "reap" /\ run'[r].pc \in {"sort", "sleep"}

\* C37: a tracked job whose process the reap loop finds exited goes through
\* post-processing and finalisation and is removed from the in-flight map
\* by the closing step, whether or not post-processing or the rename to
\* .finish failed; the loop is then still in its reap phase, and the
\* capacity of the admit phase is computed only when every job the cycle
\* began with has been polled, from the map as it is then.
C37_ExitedJobLeavesMap ==
  /\ [][\A r \in cfg.runners :
          /\ ReapStep(r) =>
               /\ run'[r].cur \in DOMAIN run[r].jobs
               /\ run[r].jobs[run'[r].cur] # "run"
               /\ run'[r].capacity = run[r].capacity
          /\ FinalizeStep(r) =>
               /\ run[r].cur \notin DOMAIN run'[r].jobs
               /\ run'[r].pc = "reap"
               /\ run'[r].capacity = run[r].capacity
          /\ CapacityStep(r) =>
               /\ run[r].todo = {}
               /\ run'[r].jobs = run[r].jobs
               /\ run'[r].capacity =
                    Max(0, Max(1, cfg.max_parallel) - Cardinality(DOMAIN run[r].jobs))]_vars
  /\ [](\A r \in cfg.runners :
          run[r].pc = "fin" =>
            /\ run[r].cur \in DOMAIN run[r].jobs
            /\ run[r].jobs[run[r].cur] # "run")

\* C37 witness: the rename to .finish of a job failed (its .working had been
\* removed by the other loop); no loop tracks the job any more, and the loop
\* that reaped it has gone on to its admit phase with its one slot free.
C37_FailedFinalisationFreedSlot ==
  \E d \in DOMAIN jobdir, r \in cfg.runners :
    /\ <<"warn_finish", d>> \in status
    /\ ~jobdir[d].finish
    /\ \A q \in cfg.runners : d \notin DOMAIN run[q].jobs
    /\ run[r].pc = "sort"
    /\ run[r].capacity = 1
    /\ hist[d].launches >= 1

\* main.py with one watch pair whose sources share the stem x: the file
\* x.raw, seen with two sizes, and the bundle x.d; the runs succeed with
\* one of two artifacts each, and the clearing of a job's staging
\* directories can fail
InitStem ==
  /\ cfg = [cands |-> { <<<<"/in1/", "x", ".raw">>, 2>>, <<<<"/in1/", "x", ".d">>, 2>>,
                        <<<<"/in1/", "x", ".raw">>, 12>> },
            matFaults |-> FALSE,
            runners |-> {1},
            max_parallel |-> 1,
            main_nf |-> TRUE,
            spawns |-> {"ok"},
            rcs |-> {"rc0"},
            pool |-> { [id |-> "h1", mtime |-> 1, size |-> 1],
                       [id |-> "h2", mtime |-> 2, size |-> 1] },
            nflogs |-> {TRUE},
            postFaults |-> {"none", "clear"},
            cwd |-> ProjectRoot]
  /\ InitCommon

SpecStem == InitStem /\ [][NextOne]_vars

\* C38: the result of every job of the pair whose source has the stem x is
\* written to x.hdf5 of the final output root, whatever the suffix and the
\* size of the source: the root never holds another file, and a success
\* post-processing that finds an artifact leaves in x.hdf5 the newest
\* artifact of the job it has just reaped, replacing what an earlier job
\* left there.
C38_OneResultPerStem ==
  /\ [](DOMAIN finalOut[WatchRoot] \subseteq { <<"x", ".hdf5">> })
  /\ [][\A r \in cfg.runners :
          (SuccessStep(r) /\ jobdir[run'[r].cur].output # {}) =>
            /\ DOMAIN finalOut'[WatchRoot] = { <<"x", ".hdf5">> }
            /\ finalOut'[WatchRoot][<<"x", ".hdf5">>] \in jobdir[run'[r].cur].output
            /\ \A b \in jobdir[run'[r].cur].output :
                 b.mtime <= finalOut'[WatchRoot][<<"x", ".hdf5">>].mtime]_vars

\* C38 witness: the jobs of x.raw and of x.d have both finished; the first
\* produced only artifact h1 (it is still staged, the clearing had failed),
\* the second was reaped after it, and the final output root holds the one
\* file x.hdf5, which is the second job's artifact h2.
C38_LastReapedWins ==
  LET d1 == make_hash(<<"/in1/", "x", ".raw">>, 2)
      d2 == make_hash(<<"/in1/", "x", ".d">>, 2)
  IN  /\ d1 \in DOMAIN jobdir /\ d2 \in DOMAIN jobdir
      /\ Markers(d1) = {"finish"} /\ Markers(d2) = {"finish"}
      /\ { a.id : a \in jobdir[d1].output } = {"h1"}
      /\ jobdir[d2].output = {}
      /\ <<"out", d1>> \in status /\ <<"out", d2>> \in status
      /\ DOMAIN finalOut[WatchRoot] = { <<"x", ".hdf5">> }
      /\ finalOut[WatchRoot][<<"x", ".hdf5">>].id = "h2"

\* C39: the loop test that finds the stop event set ends the runner loop at
\* once, with its in-flight map as it is; from then on the loop reaps and
\* claims nothing, changes no marker and no marker line, and puts no status
\* message, so a job whose process was running stays in .working; the
\* process itself is left alone and may still exit.
C39_NothingAfterStop ==
  /\ [][\A r \in cfg.runners :
          /\ (run[r].pc = "sleep" /\ run'[r].pc # "sleep" /\ stop[r]) =>
               /\ run'[r].pc = "done"
               /\ run'[r].jobs = run[r].jobs
               /\ UNCHANGED <<fsVars, status, hist>>
          /\ run[r].pc = "done" =>
               /\ run'[r].pc = "done"
               /\ DOMAIN run'[r].jobs = DOMAIN run[r].jobs
               /\ UNCHANGED <<status, hist, finalOut, ignoreOut>>
               /\ \A d \in DOMAIN run[r].jobs :
                    /\ Markers(d)' = Markers(d)
                    /\ jobdir'[d].wlines = jobdir[d].wlines]_vars
  /\ [](\A r \in cfg.runners :
          run[r].pc = "done" =>
            \A d \in DOMAIN run[r].jobs :
              /\ Markers(d) = {"working"}
              /\ "finished" \notin jobdir[d].wlines)

\* C39 witness: the runner loop has ended with a job in flight, whose
\* process exited with code 0 afterwards and left an artifact: the job is
\* still marked .working with no finish line, nothing was published.
C39_ExitedAfterStopStaysWorking ==
  /\ run[1].pc = "done"
  /\ \E d \in DOMAIN run[1].jobs :
       /\ run[1].jobs[d] = "rc0"
       /\ jobdir[d].output # {}
       /\ Markers(d) = {"working"}
       /\ jobdir[d].wlines = {"started", "cmd"}
       /\ finalOut[WatchRoot] = <<>>

\* main.py as it runs: the watcher thread of one watch pair, the event loop
\* of main() with copy_candidates called from it, the runner thread and the
\* pipeline processes
InitMain ==
  /\ cfg = [cands |-> { <<<<"/in1/", "a">>, 2>> },
            matFaults |-> FALSE,
            runners |-> {1},
            max_parallel |-> 1,
            main_nf |-> TRUE,
            spawns |-> {"ok"},
            rcs |-> {"rc0"},
            pool |-> { [id |-> "h1", mtime |-> 1, size |-> 1] },
            nflogs |-> {TRUE},
            postFaults |-> {"none"},
            cwd |-> ProjectRoot]
  /\ InitCommon

NextMain ==
  \/ NextCoord
  \/ Runner(1)
  \/ Processes

SpecMain == InitMain /\ [][NextMain]_vars

\* a step of the watcher thread or of the runner thread
ThreadStep ==
  \/ watch'.scans # watch.scans
  \/ watch'.pc # watch.pc
  \/ run' # run

\* C40: the dedupe cache changes only in a step of the materializer
\* invocation in progress, which the event loop of main() started; no step
\* of the watcher thread or of the runner thread touches the cache or the
\* invocation; an invocation starts only when none is in progress, on the
\* one event the loop has just taken, and the loop takes no further event
\* until the invocation has returned.
C40_OneInvocationAtATime ==
  [][/\ copied_cache' # copied_cache =>
          /\ mat.pc = "loop" /\ mat.snap # <<>>
          /\ mat'.pc = "loop"
          /\ copied_cache' = copied_cache \cup { <<Head(mat.snap).name, Head(mat.snap).size>> }
          /\ UNCHANGED <<watch, run, coord, calls>>
     /\ ThreadStep => UNCHANGED <<copied_cache, mat, calls, coord>>
     /\ calls' # calls =>
          /\ calls' = calls + 1
          /\ mat.pc = "idle" /\ mat'.pc = "loop"
          /\ coord.pc = "loop"
          /\ coord'.taken = coord.taken + 1
          /\ mat'.snap = watch.q[coord'.taken].items
          /\ UNCHANGED copied_cache
     /\ mat.pc = "loop" => UNCHANGED <<coord, calls>>]_vars

\* C40 witness: the second invocation is in progress on the third event the
\* loop took, with the pair in the cache since the first invocation, while
\* the watcher has put a further event and the runner has a job in flight.
C40_SecondInvocationRunning ==
  /\ calls = 2
  /\ mat.pc = "loop"
  /\ mat.snap # <<>>
  /\ <<Head(mat.snap).name, Head(mat.snap).size>> \in copied_cache
  /\ coord.taken = 3
  /\ Len(watch.q) > coord.taken
  /\ DOMAIN run[1].jobs # {}

====
